---- MODULE Spec2Model ----
(***************************************************************************)
(* Model of the rendering core of the terminal's Atlas renderer:           *)
(*   - the byte-budget LRU glyph cache (GlyphAtlasCache,                    *)
(*     research/fonts/nerd-fonts/samples/02-glyph-atlas-cache.cpp),         *)
(*   - the instance batcher of BackendD3D12 (_batchBegin/_batchAddInstance/ *)
(*     _batchEnd/_batchRender),                                             *)
(*   - the frame lifecycle of BackendD3D12 (Render, _waitForGpu) together   *)
(*     with the GPU queues and fences it talks to,                          *)
(*   - the rect-pack glyph atlas of BackendOpenGL (declared in              *)
(*     BackendOpenGL.h; its definitions are not part of the sources, so it  *)
(*     follows the written specification),                                  *)
(*   - the DirectStorage byte loader (DirectStorageManager) and the         *)
(*     CPU-upload writes to the glyph atlas texture of BackendD3D12,        *)
(*   - the text mapping of AtlasEngineD3D12 (_flushBufferLine,              *)
(*     _mapRegularText, _mapReplacementCharacter).                          *)
(*   - the frame of D3D12Engine (StartPaint, PaintBackground, EndPaint).    *)
(* Each subsystem has its own specification (SpecCache, SpecScript,         *)
(* SpecBatch, SpecFrame, SpecFrameLive, SpecAtlas, SpecStorage, SpecShape,  *)
(* SpecUpload, SpecEngine);                                                 *)
(* the variables of the other subsystems stay at their initial values.      *)
(***************************************************************************)
EXTENDS Integers, Sequences, FiniteSets, TLC

VARIABLES
    \* ---- GlyphAtlasCache ----
    m_cache,                \* std::unordered_map key -> entry.dataSize
    m_lruList,              \* std::list<GlyphCacheKey>, front = index 1
    m_currentMemoryUsage,   \* size_t usage counter
    touchOrder,             \* live keys ordered by entry.lastAccessTime, newest first
    lastEvicted,            \* keys erased from m_cache by the latest call, in order
    lastCall,               \* the latest public call and its arguments
    script,                 \* the calls a client of the cache is about to make
    scriptPos,              \* how many calls of the script have been made
    \* ---- BackendD3D12 batcher ----
    _instances,             \* std::vector<QuadInstance>: the shadingType (u16) of each
    _batches,               \* std::vector<BatchedDrawCall>
    _instanceCount,         \* u32 _instanceCount
    instanceUpload,         \* contents of _instanceUploadBuffer
    drawCalls,              \* DrawIndexedInstanced calls on the list being recorded
    batchPhase,             \* position inside the begin / add / end / render sequence
    \* ---- BackendD3D12 frame lifecycle ----
    pc,                     \* where the render thread is inside Render / _waitForGpu
    _currentFrameIndex,     \* u32 _currentFrameIndex
    _frameResources,        \* slot -> FrameResource::fenceValue
    _fenceValue,            \* UINT64 _fenceValue
    _computeFenceValue,     \* UINT64 _computeFenceValue
    _copyFenceValue,        \* UINT64 _copyFenceValue
    _frameCount,            \* u32 _frameCount
    releasing,              \* TRUE while ReleaseResources runs its _waitForGpu
    gpuQueue,               \* per command queue: submitted, not yet executed work
    fenceCompleted,         \* per fence: ID3D12Fence::GetCompletedValue()
    submitted,              \* frames handed to the graphics queue: slot and fence value
    signalled,              \* values passed to Signal(_fence, ...), in call order
    computeSignalled,       \* values passed to Signal(_computeFence, ...), in call order
    storageQueue,           \* DirectStorage file queue: requests enqueued / in flight
    frameAtlasWrites,       \* atlas updates issued while the current frame is recorded
    presentResult,          \* HRESULT of the latest IDXGISwapChain::Present
    \* ---- BackendOpenGL rect-pack glyph atlas ----
    _glyphAtlasSize,        \* u16x2 _glyphAtlasSize: width and height of the texture
    _rectPacker,            \* packer state: the shelves opened so far
    atlasRegions,           \* regions handed out since the atlas was last reset
    atlasResets,            \* TRUE once an allocation had to reset the atlas
    shapedRowCache,         \* texcoords kept by the cached shaped rows
    atlasCall,              \* the latest allocation request and how it went
    \* ---- DirectStorageManager ----
    ATLAS_HAVE_DIRECTSTORAGE, \* build flag: the DirectStorage headers were there
    _available,             \* bool _available
    _fileQueue,             \* TRUE while the IDStorageQueue pointer is set
    _status,                \* std::wstring _status
    _pendingFiles,          \* number of IDStorageFile handles kept for open requests
    storageCall,            \* the latest call into the loader and what came back
    \* ---- AtlasEngineD3D12 text mapping ----
    bufferLine,             \* _api.bufferLine: code points of the line being painted
    lastPaintBufferLineCoord, \* _api.lastPaintBufferLineCoord.y
    rows,                   \* _p.rows: glyphIndices of each ShapedRowD3D12
    replacementCharacter,   \* _api.replacementCharacter{LookedUp, FontFace, GlyphIndex}
    shapeCall,              \* the latest mapping call and the text it ran on
    \* ---- continuous redraw ----
    _requiresContinuousRedraw, \* BackendOpenGL::_requiresContinuousRedraw
    _customShaderProgram,   \* BackendOpenGL::_customShaderProgram, 0 when there is none
    redrawCall,             \* the latest RequiresContinuousRedraw() and its answer
    \* ---- CPU-upload writes to the glyph atlas ----
    _glyphAtlas,            \* whether the glyph atlas texture exists
    glyphAtlasState,        \* D3D12 resource state the recorded commands leave it in
    atlasCommands,          \* commands the latest atlas write recorded on the list
    uploadCall,             \* the latest atlas write and how it ended
    \* ---- D3D12Engine ----
    paint,                  \* where the render thread is: idle, painting, waiting
    engine,                 \* members _swapChain (set or not), _frameIndex, _fenceValue
    backBuffers,            \* swap chain: current back buffer, resource state of each
    engineQueue,            \* _commandQueue: submitted, not yet executed work
    engineCompleted,        \* _fence->GetCompletedValue()
    engineCall              \* the latest call into the engine and how it went

cacheVars == <<m_cache, m_lruList, m_currentMemoryUsage, touchOrder, lastEvicted, lastCall,
               script, scriptPos>>
batchVarsButDraws == <<_instances, _batches, _instanceCount, instanceUpload, batchPhase>>
batchVars == <<batchVarsButDraws, drawCalls>>
frameVars == <<pc, _currentFrameIndex, _frameResources, _fenceValue, _computeFenceValue,
               _copyFenceValue, _frameCount, releasing, gpuQueue, fenceCompleted,
               submitted, signalled, computeSignalled, storageQueue, frameAtlasWrites, presentResult>>
frameAux == <<storageQueue, frameAtlasWrites, presentResult>>
atlasVars == <<_glyphAtlasSize, _rectPacker, atlasRegions, atlasResets, shapedRowCache,
               atlasCall>>
storageVars == <<ATLAS_HAVE_DIRECTSTORAGE, _available, _fileQueue, _status, _pendingFiles,
                 storageCall>>
shapeVars == <<bufferLine, lastPaintBufferLineCoord, rows, replacementCharacter, shapeCall>>
redrawVars == <<_requiresContinuousRedraw, _customShaderProgram, redrawCall>>
uploadVars == <<_glyphAtlas, glyphAtlasState, atlasCommands, uploadCall>>
engineVars == <<paint, engine, backBuffers, engineQueue, engineCompleted, engineCall>>
extraButUpload == <<shapeVars, redrawVars, engineVars>>
extraButStorage == <<shapeVars, redrawVars, uploadVars, engineVars>>
extraButShape == <<storageVars, redrawVars, uploadVars, engineVars>>
extraButEngine == <<storageVars, shapeVars, redrawVars, uploadVars>>
extraVars == <<storageVars, shapeVars, redrawVars, uploadVars, engineVars>>
vars == <<cacheVars, batchVars, frameVars, atlasVars, extraVars>>

----------------------------------------------------------------------------
(* Generic helpers *)

Last(s) == s[Len(s)]

Front(s) == SubSeq(s, 1, Len(s) - 1)

\* std::list::remove(value): drops every element equal to value
ListRemove(s, k) == SelectSeq(s, LAMBDA x : x # k)

RECURSIVE SumOver(_, _)
SumOver(f, S) ==
    IF S = {} THEN 0
    ELSE LET x == CHOOSE y \in S : TRUE
         IN f[x] + SumOver(f, S \ {x})

----------------------------------------------------------------------------
(* GlyphAtlasCache: byte-budget LRU cache *)

MiB == 1048576

MAX_ATLAS_SIZE == 256 * MiB

\* bounds of the cache model
NumKeys == 3
MaxLruLen == 4
UsageCapMiB == 640

Keys == 1..NumKeys

\* entry.dataSize values offered to AddGlyph: two that fit several times,
\* one that fills half of the budget, one larger than the whole budget
EntrySizes == {64 * MiB, 128 * MiB, 300 * MiB}

NoCall == [op |-> "none", key |-> 0, size |-> 0]

NoScript == [kind |-> "none", calls |-> <<>>]

CacheState == [cache |-> m_cache, lru |-> m_lruList, usage |-> m_currentMemoryUsage,
               touch |-> touchOrder, evicted |-> <<>>]

EvictOldestGlyph_Front(st) ==
    IF st.lru = <<>> THEN st
    ELSE LET newest == Head(st.lru)
             found  == newest \in DOMAIN st.cache
         IN [cache   |-> IF found
                         THEN [k \in (DOMAIN st.cache) \ {newest} |-> st.cache[k]]
                         ELSE st.cache,
             lru     |-> Tail(st.lru),
             usage   |-> IF found THEN st.usage - st.cache[newest] ELSE st.usage,
             touch   |-> IF found THEN ListRemove(st.touch, newest) ELSE st.touch,
             evicted |-> IF found THEN Append(st.evicted, newest) ELSE st.evicted]

\* EvictOldestGlyph(): pop the back of the LRU list; erase that key from the
\* map if it is there and give its bytes back
EvictOldestGlyph(st) ==
    IF st.lru = <<>> THEN st
    ELSE LET oldest == Last(st.lru)
             found  == oldest \in DOMAIN st.cache
         IN [cache   |-> IF found
                         THEN [k \in (DOMAIN st.cache) \ {oldest} |-> st.cache[k]]
                         ELSE st.cache,
             lru     |-> Front(st.lru),
             usage   |-> IF found THEN st.usage - st.cache[oldest] ELSE st.usage,
             touch   |-> IF found THEN ListRemove(st.touch, oldest) ELSE st.touch,
             evicted |-> IF found THEN Append(st.evicted, oldest) ELSE st.evicted]

MustEvict_Never(st, size) == FALSE

\* the loop condition of AddGlyph
MustEvict(st, size) ==
    st.usage + size > MAX_ATLAS_SIZE /\ DOMAIN st.cache # {}

\* the while loop of AddGlyph.  Every cached key is on the LRU list (see
\* CachedKeysAreListed), so the list cannot run empty while the map is not.
RECURSIVE EvictLoop(_, _)
EvictLoop(st, size) ==
    IF MustEvict(st, size) /\ st.lru # <<>>
    THEN EvictLoop(EvictOldestGlyph(st), size)
    ELSE st

PushFront_Dropped(lru, key) == lru

\* m_lruList.push_front(key)
PushFront(lru, key) == <<key>> \o lru

\* AddGlyph(key, entry): evict, then store unconditionally
AddGlyph(st, key, size) ==
    LET e == EvictLoop(st, size)
    IN [cache   |-> [k \in (DOMAIN e.cache) \cup {key} |->
                        IF k = key THEN size ELSE e.cache[k]],
        lru     |-> PushFront(e.lru, key),
        usage   |-> e.usage + size,
        touch   |-> <<key>> \o ListRemove(e.touch, key),
        evicted |-> e.evicted]

\* TouchGlyph(key): move the key to the front, stamp lastAccessTime
TouchGlyph(st, key) ==
    [st EXCEPT !.lru   = <<key>> \o ListRemove(st.lru, key),
               !.touch = IF key \in DOMAIN st.cache
                         THEN <<key>> \o ListRemove(st.touch, key)
                         ELSE st.touch]

\* TryGetGlyph(key, entry): touch on a hit, nothing on a miss
TryGetGlyph(st, key) ==
    IF key \in DOMAIN st.cache THEN TouchGlyph(st, key) ELSE st

SetCache(st, call) ==
    /\ m_cache' = st.cache
    /\ m_lruList' = st.lru
    /\ m_currentMemoryUsage' = st.usage
    /\ touchOrder' = st.touch
    /\ lastEvicted' = st.evicted
    /\ lastCall' = call

InitCacheVars ==
    /\ m_cache = << >>
    /\ m_lruList = <<>>
    /\ m_currentMemoryUsage = 0
    /\ touchOrder = <<>>
    /\ lastEvicted = <<>>
    /\ lastCall = NoCall
    /\ script = NoScript
    /\ scriptPos = 0

DoAddGlyph ==
    \E key \in Keys, size \in EntrySizes :
        /\ Len(m_lruList) < MaxLruLen
        /\ m_currentMemoryUsage + size <= UsageCapMiB * MiB
        /\ SetCache(AddGlyph(CacheState, key, size),
                    [op |-> "add", key |-> key, size |-> size])
        /\ UNCHANGED <<script, scriptPos, batchVars, frameVars, atlasVars, extraVars>>

DoTryGetGlyph ==
    \E key \in Keys :
        /\ SetCache(TryGetGlyph(CacheState, key),
                    [op |-> IF key \in DOMAIN m_cache THEN "hit" ELSE "miss",
                     key |-> key, size |-> 0])
        /\ UNCHANGED <<script, scriptPos, batchVars, frameVars, atlasVars, extraVars>>

\* the code points PreloadCommonGlyphs asks for: printable ASCII from 32
\* on, and icons such as U+E0B0
PowerlineSeparator == 57520

PreloadCodePoints == {31 + k : k \in Keys} \cup {PowerlineSeparator}

\* fontFace->GetGlyphIndices(&codepoint, 1, &glyphIndex): the font has
\* glyphs for the ASCII range; a code point it lacks gets glyph index 0
GetGlyphIndices(codepoint) ==
    IF codepoint - 31 \in Keys THEN codepoint - 31 ELSE 0

\* fontSize handed to the preload, which makes an entry of 64 MiB
PreloadFontSize == 4096

\* RasterizeGlyph(fontFace, glyphIndex, fontSize, dpi).dataSize
RasterizeGlyph(fontSize) == fontSize * fontSize * 4

\* PreloadGlyph(fontFace, codepoint, fontSize, dpi): the key is made of the
\* glyph index; on a miss the glyph is rasterized and added
PreloadGlyph(st, codepoint, fontSize) ==
    LET key == GetGlyphIndices(codepoint)
    IN IF key \in DOMAIN st.cache
       THEN TryGetGlyph(st, key)
       ELSE AddGlyph(TryGetGlyph(st, key), key, RasterizeGlyph(fontSize))

DoPreloadGlyph ==
    \E codepoint \in PreloadCodePoints :
        /\ Len(m_lruList) < MaxLruLen
        /\ m_currentMemoryUsage + RasterizeGlyph(PreloadFontSize) <= UsageCapMiB * MiB
        /\ SetCache(PreloadGlyph(CacheState, codepoint, PreloadFontSize),
                    [op |-> "preload", key |-> GetGlyphIndices(codepoint),
                     size |-> RasterizeGlyph(PreloadFontSize), codepoint |-> codepoint])
        /\ UNCHANGED <<script, scriptPos, batchVars, frameVars, atlasVars, extraVars>>

\* Clear()
DoClear ==
    /\ SetCache([cache |-> << >>, lru |-> <<>>, usage |-> 0, touch |-> <<>>,
                 evicted |-> <<>>],
                [op |-> "clear", key |-> 0, size |-> 0])
    /\ UNCHANGED <<script, scriptPos, batchVars, frameVars, atlasVars, extraVars>>

----------------------------------------------------------------------------
(* A client of GlyphAtlasCache that makes a fixed sequence of calls on a     *)
(* fresh cache, the way RenderGlyph and PreloadGlyph call it                 *)

\* bounds of the scripted clients: keys to name the five glyphs from, and
\* the number and size of the glyphs of the bulk insertion
NumScriptKeys == 5
BulkGlyphCount == 100
BulkGlyphMiB == 3

ScriptKeys == 1..NumScriptKeys

\* entry sizes of which exactly three fit the budget
EqualSizes == {n * MiB : n \in {70, 85}}

AddCall(key, size) == [op |-> "add", key |-> key, size |-> size]

GetCall(key) == [op |-> "get", key |-> key, size |-> 0]

\* AddGlyph of a, b, c, d; TryGetGlyph of a; AddGlyph of e
LruScript(a, b, c, d, e, size) ==
    [kind  |-> "lru",
     calls |-> <<AddCall(a, size), AddCall(b, size), AddCall(c, size), AddCall(d, size),
                 GetCall(a), AddCall(e, size)>>]

LruScripts ==
    {LruScript(f[1], f[2], f[3], f[4], f[5], size) :
        f \in {g \in [1..5 -> ScriptKeys] : \A i, j \in 1..5 : i # j => g[i] # g[j]},
        size \in EqualSizes}

\* AddGlyph of BulkGlyphCount distinct glyphs, one after the other
BulkScript ==
    [kind  |-> "bulk",
     calls |-> [i \in 1..BulkGlyphCount |-> AddCall(i, BulkGlyphMiB * MiB)]]

Scripts == LruScripts \cup {BulkScript}

\* the cache after one call of a script
ApplyCall(st, call) ==
    IF call.op = "add" THEN AddGlyph(st, call.key, call.size)
    ELSE TryGetGlyph(st, call.key)

InitScriptVars ==
    /\ m_cache = << >>
    /\ m_lruList = <<>>
    /\ m_currentMemoryUsage = 0
    /\ touchOrder = <<>>
    /\ lastEvicted = <<>>
    /\ lastCall = NoCall
    /\ script \in Scripts
    /\ scriptPos = 0

\* the client makes its next call
DoScriptCall ==
    /\ scriptPos < Len(script.calls)
    /\ LET call == script.calls[scriptPos + 1]
       IN SetCache(ApplyCall(CacheState, call),
                   [op |-> IF call.op = "add" THEN "add"
                           ELSE IF call.key \in DOMAIN m_cache THEN "hit" ELSE "miss",
                    key |-> call.key, size |-> call.size])
    /\ scriptPos' = scriptPos + 1
    /\ UNCHANGED <<script, batchVars, frameVars, atlasVars, extraVars>>

----------------------------------------------------------------------------
(* BackendD3D12 batcher *)

\* Maximum instances per frame.  The source sets 65536; the model keeps the
\* same comparisons against a small cap so that the cap is reached.
MaxInstances == 4

\* QuadInstance::shadingType is a u16; ShadingType is an enum over u8
U8 == 256

\* shadingType values submitted to the batcher: Background, TextGrayscale,
\* and a 16-bit value whose low byte is Background's
ShadingValues == {0, 1, 256}

\* static_cast<ShadingType>(instance.shadingType): u16 -> enum : u8
ToShadingType(v) == v % U8

BatchState == [instances |-> _instances, batches |-> _batches, count |-> _instanceCount]

\* _batchBegin()
BatchBegin(st) == [instances |-> <<>>, batches |-> <<>>, count |-> 0]

\* the branch of _batchAddInstance that opens a new batch
NewBatch(st, shading) ==
    Append(st.batches, [instanceOffset |-> Len(st.instances),
                        instanceCount  |-> 1,
                        shadingType    |-> ToShadingType(shading)])

ExtendBatch_NoIncrement(st) == st.batches

\* the branch of _batchAddInstance that extends the last batch
ExtendBatch(st) ==
    [st.batches EXCEPT ![Len(st.batches)].instanceCount = @ + 1]

InstancesFull_OffByOne(size) == size > MaxInstances

\* the test at the top of _batchAddInstance
InstancesFull(size) == size >= MaxInstances

\* _batchAddInstance(instance)
BatchAddInstance(st, shading) ==
    IF InstancesFull(Len(st.instances))
    THEN st
    ELSE LET b == IF st.batches = <<>>
                     \/ Last(st.batches).shadingType # ToShadingType(shading)
                  THEN NewBatch(st, shading)
                  ELSE ExtendBatch(st)
         IN [instances |-> Append(st.instances, shading),
             batches   |-> b,
             count     |-> Len(st.instances) + 1]

\* _updateInstanceBuffer(instances, count): the new buffer contents
UpdateInstanceBuffer(buffer, instances, count) ==
    IF count = 0 \/ count > MaxInstances
    THEN buffer
    ELSE [i \in 1..(IF Len(buffer) > count THEN Len(buffer) ELSE count) |->
             IF i <= count THEN instances[i] ELSE buffer[i]]

\* _batchEnd(): the new buffer contents
BatchEnd(buffer, st) ==
    IF st.instances = <<>> THEN buffer
    ELSE UpdateInstanceBuffer(buffer, st.instances, st.count)

\* the pipeline state _batchRender selects for a batch
PsoFor(shadingType) ==
    CASE shadingType = 0          -> "background"
      [] shadingType = 1          -> "textGrayscale"
      [] shadingType = 2          -> "textClearType"
      [] shadingType \in {3, 4, 8, 10} -> "textGrayscale"
      [] shadingType \in {5, 6, 7} -> "line"
      [] shadingType = 9          -> "cursor"
      [] OTHER                    -> "background"

DrawStartInstance_Zero(batch) == 0

\* the StartInstanceLocation argument of DrawIndexedInstanced
DrawStartInstance(batch) == batch.instanceOffset

\* the DrawIndexedInstanced calls _batchRender records
BatchRenderDraws(st) ==
    IF st.instances = <<>> \/ st.batches = <<>> THEN <<>>
    ELSE [i \in 1..Len(st.batches) |->
             [pso            |-> PsoFor(st.batches[i].shadingType),
              instanceCount  |-> st.batches[i].instanceCount,
              startInstance  |-> DrawStartInstance(st.batches[i])]]

\* _batchRender(): the batch state it leaves
BatchRender(st) ==
    IF st.instances = <<>> \/ st.batches = <<>> THEN st
    ELSE [instances |-> <<>>, batches |-> <<>>, count |-> 0]

SetBatch(st) ==
    /\ _instances' = st.instances
    /\ _batches' = st.batches
    /\ _instanceCount' = st.count

InitBatchVars ==
    /\ _instances = <<>>
    /\ _batches = <<>>
    /\ _instanceCount = 0
    /\ instanceUpload = <<>>
    /\ drawCalls = <<>>
    /\ batchPhase = "idle"

\* _batchBegin(), on the command list _beginFrame has just reset
DoBatchBegin ==
    /\ batchPhase = "idle"
    /\ SetBatch(BatchBegin(BatchState))
    /\ drawCalls' = <<>>
    /\ batchPhase' = "adding"
    /\ UNCHANGED <<instanceUpload, cacheVars, frameVars, atlasVars, extraVars>>

DoBatchAddInstance ==
    /\ batchPhase = "adding"
    /\ \E shading \in ShadingValues : SetBatch(BatchAddInstance(BatchState, shading))
    /\ UNCHANGED <<batchPhase, instanceUpload, drawCalls, cacheVars, frameVars, atlasVars,
                   extraVars>>

DoBatchEnd ==
    /\ batchPhase = "adding"
    /\ instanceUpload' = BatchEnd(instanceUpload, BatchState)
    /\ batchPhase' = "ended"
    /\ UNCHANGED <<_instances, _batches, _instanceCount, drawCalls, cacheVars, frameVars,
                   atlasVars, extraVars>>

DoBatchRender ==
    /\ batchPhase = "ended"
    /\ drawCalls' = BatchRenderDraws(BatchState)
    /\ SetBatch(BatchRender(BatchState))
    /\ batchPhase' = "idle"
    /\ UNCHANGED <<instanceUpload, cacheVars, frameVars, atlasVars, extraVars>>

----------------------------------------------------------------------------
(* BackendD3D12 frame lifecycle, with the GPU side of queues and fences *)

FrameCount == 3

\* bound of the frame model: fence values handed out by the render thread
MaxFenceValue == 6

\* test instances _populateCommandList submits every frame
DemoInstanceCount == 100

Slots == 0..(FrameCount - 1)

Queues == {"graphics", "compute", "copy"}

Fences == {"frame", "compute", "copy"}

\* the three signalAndWait calls of _waitForGpu, in order
WaitStages == <<[queue |-> "graphics", fence |-> "frame",   pc |-> "wait_graphics"],
                [queue |-> "compute",  fence |-> "compute", pc |-> "wait_compute"],
                [queue |-> "copy",     fence |-> "copy",    pc |-> "wait_copy"]>>

\* the member that counts the values of a fence
FenceValueOf(fence) ==
    CASE fence = "frame"   -> _fenceValue
      [] fence = "compute" -> _computeFenceValue
      [] fence = "copy"    -> _copyFenceValue

NextFenceValue_Stuck(v) == v

\* `_fenceValue++` of _moveToNextFrame and `value++` of signalAndWait
NextFenceValue(v) == v + 1

BeginFrameReady_NoWait(completed, slotFenceValue) == TRUE

\* the test of _beginFrame: may the slot's allocator be reset now
\* (the thread blocks in WaitForSingleObject until it may)
BeginFrameReady(completed, slotFenceValue) == ~(completed < slotFenceValue)

\* IDXGISwapChain3::GetCurrentBackBufferIndex() after a Present of a
\* FrameCount-buffer flip swap chain
NextBackBufferIndex(i) == (i + 1) % FrameCount

\* ID3D12CommandQueue::Signal and ExecuteCommandLists append to the queue
Enqueue(queue, item) == [gpuQueue EXCEPT ![queue] = Append(@, item)]

SignalItem(fence, value) == [op |-> "signal", fence |-> fence, value |-> value, slot |-> 0]

ExecItem(slot) == [op |-> "exec", fence |-> "none", value |-> 0, slot |-> slot]

\* frames submitted whose fence value the frame fence has not reached
InFlight ==
    {i \in 1..Len(submitted) :
        submitted[i].fenceValue = 0 \/ submitted[i].fenceValue > fenceCompleted["frame"]}

\* the loop of _populateCommandList over the test instances; once the
\* instance vector is full every further _batchAddInstance returns at once
RECURSIVE AddAll(_, _, _)
AddAll(st, stream, i) ==
    IF i > Len(stream) \/ Len(st.instances) >= MaxInstances THEN st
    ELSE AddAll(BatchAddInstance(st, stream[i]), stream, i + 1)

DemoStream == [i \in 1..DemoInstanceCount |-> 0]

InitFrameVars ==
    /\ pc = "idle"
    /\ _currentFrameIndex = 0
    /\ _frameResources = [i \in Slots |-> 0]
    /\ _fenceValue = 1
    /\ _computeFenceValue = 1
    /\ _copyFenceValue = 1
    /\ _frameCount = 0
    /\ releasing = FALSE
    /\ gpuQueue = [q \in Queues |-> <<>>]
    /\ fenceCompleted = [f \in Fences |-> 0]
    /\ submitted = <<>>
    /\ signalled = <<>>
    /\ computeSignalled = <<>>
    /\ storageQueue = [enqueued |-> 0, inflight |-> 0]
    /\ frameAtlasWrites = {}
    /\ presentResult = "S_OK"

\* _beginFrame(): wait for the slot's fence value, reset allocator and list
BeginFrame ==
    /\ pc = "idle"
    /\ _fenceValue < MaxFenceValue
    /\ BeginFrameReady(fenceCompleted["frame"], _frameResources[_currentFrameIndex])
    /\ pc' = "recording"
    /\ frameAtlasWrites' = {}
    /\ drawCalls' = <<>>
    /\ UNCHANGED <<_currentFrameIndex, _frameResources, _fenceValue, _computeFenceValue,
                   _copyFenceValue, _frameCount, releasing, gpuQueue, fenceCompleted,
                   submitted, signalled, computeSignalled, storageQueue, presentResult,
                   cacheVars, batchVarsButDraws, atlasVars, extraVars>>

\* _populateCommandList(payload): writes the constant buffers, batches the
\* test instances, writes the instance buffer, records one draw per batch
PopulateCommandList ==
    /\ pc = "recording"
    /\ LET added == AddAll(BatchBegin(BatchState), DemoStream, 1)
       IN /\ instanceUpload' = BatchEnd(instanceUpload, added)
          /\ drawCalls' = BatchRenderDraws(added)
          /\ SetBatch(BatchRender(added))
    /\ pc' = "populated"
    /\ UNCHANGED <<batchPhase, _currentFrameIndex, _frameResources, _fenceValue,
                   _computeFenceValue, _copyFenceValue, _frameCount, releasing, gpuQueue,
                   fenceCompleted, submitted, signalled, computeSignalled, frameAux, cacheVars, atlasVars, extraVars>>

\* _executeCommandLists(): close the list, hand it to the graphics queue
ExecuteCommandLists ==
    /\ pc = "populated"
    /\ gpuQueue' = Enqueue("graphics", ExecItem(_currentFrameIndex))
    /\ submitted' = Append(submitted, [slot |-> _currentFrameIndex, fenceValue |-> 0])
    /\ pc' = "executed"
    /\ UNCHANGED <<_currentFrameIndex, _frameResources, _fenceValue, _computeFenceValue,
                   _copyFenceValue, _frameCount, releasing, fenceCompleted, signalled, computeSignalled,
                   frameAux, cacheVars, batchVars, atlasVars, extraVars>>

\* HRESULTs IDXGISwapChain::Present hands back
PresentResults == {"S_OK", "DXGI_ERROR_DEVICE_REMOVED", "DXGI_ERROR_DEVICE_RESET", "E_FAIL"}

DeviceLostResults == {"DXGI_ERROR_DEVICE_REMOVED", "DXGI_ERROR_DEVICE_RESET"}

PresentOutcome_Continue(hr) == "presented"

\* where _present leaves Render: THROW_HR on a removed / reset device,
\* THROW_IF_FAILED on any other failure, else Render goes on
PresentOutcome(hr) ==
    IF hr \in DeviceLostResults THEN "lost"
    ELSE IF hr # "S_OK" THEN "failed"
    ELSE "presented"

\* _present(): Present succeeds, or reports a failure and throws out of Render
Present ==
    /\ pc = "executed"
    /\ \E hr \in PresentResults :
          /\ presentResult' = hr
          /\ pc' = PresentOutcome(hr)
    /\ UNCHANGED <<_currentFrameIndex, _frameResources, _fenceValue, _computeFenceValue,
                   _copyFenceValue, _frameCount, releasing, gpuQueue, fenceCompleted,
                   submitted, signalled, computeSignalled, storageQueue, frameAtlasWrites,
                   cacheVars, batchVars, atlasVars, extraVars>>

SlotWatermark_Unsignalled(currentFenceValue) == currentFenceValue + 1

\* the value _moveToNextFrame stores in the slot: the one it has just
\* passed to Signal
SlotWatermark(currentFenceValue) == currentFenceValue

\* _moveToNextFrame()
MoveToNextFrame ==
    /\ pc = "presented"
    /\ gpuQueue' = Enqueue("graphics", SignalItem("frame", _fenceValue))
    /\ signalled' = Append(signalled, _fenceValue)
    /\ UNCHANGED computeSignalled
    /\ _frameResources' = [_frameResources EXCEPT
                               ![_currentFrameIndex] = SlotWatermark(_fenceValue)]
    /\ submitted' = [submitted EXCEPT ![Len(submitted)].fenceValue = _fenceValue]
    /\ _currentFrameIndex' = NextBackBufferIndex(_currentFrameIndex)
    /\ _fenceValue' = NextFenceValue(_fenceValue)
    /\ _frameCount' = _frameCount + 1
    /\ pc' = "idle"
    /\ UNCHANGED <<_computeFenceValue, _copyFenceValue, releasing, fenceCompleted,
                   frameAux, cacheVars, batchVars, atlasVars, extraVars>>

\* the steps of Render other than _present that end in THROW_IF_FAILED: the
\* fence event or the allocator / list Reset of _beginFrame, the Map of
\* _updateInstanceBuffer, the Close of _executeCommandLists, the Signal of
\* _moveToNextFrame
ThrowingSteps == {"idle", "recording", "populated", "presented"}

\* one of those calls fails: the exception leaves Render, which catches
\* nothing, and nothing the step would have done after it is done
RenderStepThrows ==
    /\ pc \in ThrowingSteps
    /\ ~releasing
    /\ pc' = "failed"
    /\ UNCHANGED <<_currentFrameIndex, _frameResources, _fenceValue, _computeFenceValue,
                   _copyFenceValue, _frameCount, releasing, gpuQueue, fenceCompleted,
                   submitted, signalled, computeSignalled, frameAux, cacheVars, batchVars, atlasVars, extraVars>>

\* queue->Signal(fence, value) of the n-th signalAndWait of _waitForGpu
WaitStageSignal(n) ==
    /\ gpuQueue' = Enqueue(WaitStages[n].queue,
                           SignalItem(WaitStages[n].fence, FenceValueOf(WaitStages[n].fence)))
    /\ signalled' = IF WaitStages[n].fence = "frame"
                    THEN Append(signalled, _fenceValue) ELSE signalled
    /\ computeSignalled' = IF WaitStages[n].fence = "compute"
                           THEN Append(computeSignalled, _computeFenceValue)
                           ELSE computeSignalled
    /\ pc' = WaitStages[n].pc

\* `value++` of the n-th signalAndWait
WaitStageBump(n) ==
    /\ _fenceValue' = IF n = 1 THEN NextFenceValue(_fenceValue) ELSE _fenceValue
    /\ _computeFenceValue' = IF n = 2 THEN NextFenceValue(_computeFenceValue)
                             ELSE _computeFenceValue
    /\ _copyFenceValue' = IF n = 3 THEN NextFenceValue(_copyFenceValue) ELSE _copyFenceValue

\* _waitForGpu() entered between two frames
WaitForGpuBegin ==
    /\ pc = "idle"
    /\ _fenceValue < MaxFenceValue
    /\ WaitStageSignal(1)
    /\ UNCHANGED <<_currentFrameIndex, _frameResources, _fenceValue, _computeFenceValue,
                   _copyFenceValue, _frameCount, releasing, fenceCompleted, submitted,
                   frameAux, cacheVars, batchVars, atlasVars, extraVars>>

\* ReleaseResources(): _waitForGpu(), then every resource is released
ReleaseResources ==
    /\ pc = "idle"
    /\ ~releasing
    /\ releasing' = TRUE
    /\ WaitStageSignal(1)
    /\ UNCHANGED <<_currentFrameIndex, _frameResources, _fenceValue, _computeFenceValue,
                   _copyFenceValue, _frameCount, fenceCompleted, submitted,
                   frameAux, cacheVars, batchVars, atlasVars, extraVars>>

FenceReached_NoWait(completed, value) == TRUE

\* WaitForSingleObject(event) after SetEventOnCompletion(value, event): the
\* thread goes on once the fence has reached the value
FenceReached(completed, value) == completed >= value

\* a signalAndWait of _waitForGpu returns: the fence reached the value;
\* the next signalAndWait signals, or _waitForGpu returns
WaitForGpuStep ==
    \E n \in 1..Len(WaitStages) :
        /\ pc = WaitStages[n].pc
        /\ FenceReached(fenceCompleted[WaitStages[n].fence],
                        FenceValueOf(WaitStages[n].fence))
        /\ WaitStageBump(n)
        /\ IF n < Len(WaitStages)
           THEN WaitStageSignal(n + 1)
           ELSE /\ pc' = IF releasing THEN "released" ELSE "idle"
                /\ UNCHANGED <<gpuQueue, signalled, computeSignalled>>
        /\ UNCHANGED <<_currentFrameIndex, _frameResources, _frameCount, releasing,
                       fenceCompleted, submitted, frameAux, cacheVars, batchVars,
                       atlasVars, extraVars>>

\* a compute command list handed to a queue: "grid" fills the grid cell
\* buffer, "glyph" writes the glyph atlas through its UAV
ComputeItem(kind) == [op |-> kind, fence |-> "none", value |-> 0, slot |-> 0]

\* the queue the dispatches hand their command list and their Signal to
DispatchQueue == "graphics"

\* bound of the frame model: compute fence values the dispatches hand out
MaxComputeFenceValue == 3

\* ExecuteCommandLists, `_computeFenceValue++`, Signal(_computeFence, ...)
Dispatch(kind) ==
    /\ _computeFenceValue < MaxComputeFenceValue
    /\ _computeFenceValue' = NextFenceValue(_computeFenceValue)
    /\ gpuQueue' = [gpuQueue EXCEPT ![DispatchQueue] =
                        @ \o <<ComputeItem(kind),
                               SignalItem("compute", NextFenceValue(_computeFenceValue))>>]
    /\ computeSignalled' = Append(computeSignalled, NextFenceValue(_computeFenceValue))

\* _dispatchGridGeneration(): no wait after the Signal
DispatchGridGeneration ==
    /\ pc \in {"idle", "recording"}
    /\ Dispatch("grid")
    /\ UNCHANGED <<pc, _currentFrameIndex, _frameResources, _fenceValue, _copyFenceValue,
                   _frameCount, releasing, fenceCompleted, submitted, signalled, frameAux,
                   cacheVars, batchVars, atlasVars, extraVars>>

\* _dispatchGlyphRasterization() up to its Signal, while a frame is recorded
DispatchGlyphRasterization ==
    /\ pc = "recording"
    /\ Dispatch("glyph")
    /\ frameAtlasWrites' = frameAtlasWrites \cup {"compute"}
    /\ pc' = "wait_rasterize"
    /\ UNCHANGED <<_currentFrameIndex, _frameResources, _fenceValue, _copyFenceValue,
                   _frameCount, releasing, fenceCompleted, submitted, signalled,
                   storageQueue, presentResult, cacheVars, batchVars, atlasVars, extraVars>>

DispatchComplete_NoWait(completed, value) == TRUE

\* the test that ends _dispatchGlyphRasterization: no wait, or no more wait,
\* once the compute fence is not below the value just signalled
DispatchComplete(completed, value) == ~(completed < value)

\* _dispatchGlyphRasterization() returns
DispatchGlyphRasterizationReturn ==
    /\ pc = "wait_rasterize"
    /\ DispatchComplete(fenceCompleted["compute"], _computeFenceValue)
    /\ pc' = "recording"
    /\ UNCHANGED <<_currentFrameIndex, _frameResources, _fenceValue, _computeFenceValue,
                   _copyFenceValue, _frameCount, releasing, gpuQueue, fenceCompleted,
                   submitted, signalled, computeSignalled, frameAux, cacheVars, batchVars, atlasVars, extraVars>>

\* bound of the DirectStorage model: requests the file queue holds at once
MaxStorageRequests == 2

\* _updateGlyphAtlasFromFile(): one EnqueueFileRead per row all succeed,
\* Submit() starts everything enqueued, WaitForIdle() blocks
UpdateGlyphAtlasFromFile ==
    /\ pc = "recording"
    /\ \E height \in 1..MaxStorageRequests :
          /\ storageQueue.enqueued + height <= MaxStorageRequests
          /\ storageQueue' = [enqueued |-> 0,
                              inflight |-> storageQueue.inflight + storageQueue.enqueued
                                           + height]
    /\ pc' = "wait_storage"
    /\ UNCHANGED <<_currentFrameIndex, _frameResources, _fenceValue, _computeFenceValue,
                   _copyFenceValue, _frameCount, releasing, gpuQueue, fenceCompleted,
                   submitted, signalled, computeSignalled, frameAtlasWrites, presentResult,
                   cacheVars, batchVars, atlasVars, extraVars>>

\* _updateGlyphAtlasFromFile(): an EnqueueFileRead fails after `done` rows;
\* returns false without Submit, the rows enqueued so far stay in the queue
UpdateGlyphAtlasFromFileFails ==
    /\ pc = "recording"
    /\ \E height \in 1..MaxStorageRequests : \E done \in 0..(height - 1) :
          /\ storageQueue.enqueued + done <= MaxStorageRequests
          /\ storageQueue' = [storageQueue EXCEPT !.enqueued = @ + done]
    /\ UNCHANGED <<pc, _currentFrameIndex, _frameResources, _fenceValue,
                   _computeFenceValue, _copyFenceValue, _frameCount, releasing, gpuQueue,
                   fenceCompleted, submitted, signalled, computeSignalled, frameAtlasWrites, presentResult,
                   cacheVars, batchVars, atlasVars, extraVars>>

StorageIdle_NoWait(queue) == TRUE

\* IDStorageQueue::WaitForIdle returns once nothing submitted is unfinished
StorageIdle(queue) == queue.inflight = 0

\* _updateGlyphAtlasFromFile() after WaitForIdle: the copy from the upload
\* buffer into the atlas is recorded on the frame's command list
UpdateGlyphAtlasFromFileReturn ==
    /\ pc = "wait_storage"
    /\ StorageIdle(storageQueue)
    /\ frameAtlasWrites' = frameAtlasWrites \cup {"file"}
    /\ pc' = "recording"
    /\ UNCHANGED <<_currentFrameIndex, _frameResources, _fenceValue, _computeFenceValue,
                   _copyFenceValue, _frameCount, releasing, gpuQueue, fenceCompleted,
                   submitted, signalled, computeSignalled, storageQueue, presentResult,
                   cacheVars, batchVars, atlasVars, extraVars>>

\* DirectStorage finishes one submitted request: the read has landed in the
\* upload buffer
StorageStep ==
    /\ storageQueue.inflight > 0
    /\ storageQueue' = [storageQueue EXCEPT !.inflight = @ - 1]
    /\ UNCHANGED <<pc, _currentFrameIndex, _frameResources, _fenceValue,
                   _computeFenceValue, _copyFenceValue, _frameCount, releasing, gpuQueue,
                   fenceCompleted, submitted, signalled, computeSignalled, frameAtlasWrites, presentResult,
                   cacheVars, batchVars, atlasVars, extraVars>>

\* the GPU finishes the oldest piece of work of one queue; a Signal sets
\* the fence to the value it carries
GpuStepOn(q) ==
    /\ gpuQueue[q] # <<>>
    /\ LET item == Head(gpuQueue[q])
       IN fenceCompleted' = IF item.op = "signal"
                            THEN [fenceCompleted EXCEPT ![item.fence] = item.value]
                            ELSE fenceCompleted
    /\ gpuQueue' = [gpuQueue EXCEPT ![q] = Tail(@)]
    /\ UNCHANGED <<pc, _currentFrameIndex, _frameResources, _fenceValue,
                   _computeFenceValue, _copyFenceValue, _frameCount, releasing,
                   submitted, signalled, computeSignalled, frameAux, cacheVars, batchVars, atlasVars, extraVars>>

\* the queues run independently of each other
GpuStep == \E q \in Queues : GpuStepOn(q)

----------------------------------------------------------------------------
(* BackendOpenGL rect-pack glyph atlas.  _drawGlyphAtlasAllocate and        *)
(* _recreateGlyphAtlas are only declared in the sources; the packer is the   *)
(* shelf packer of the written specification: Allocate(size) returns a       *)
(* texcoord or none, Reset clears everything and doubles the texture up to   *)
(* the hardware maximum, and the caller resets and retries on none.          *)

\* bounds of the atlas model: hardware maximum and first texture size
MaxAtlasDim == 3
InitialAtlasDim == 1

GlyphDims == 1..MaxAtlasDim

Min(a, b) == IF a < b THEN a ELSE b

AtlasState == [size |-> _glyphAtlasSize, shelves |-> _rectPacker,
               regions |-> atlasRegions, reset |-> atlasResets, rows |-> shapedRowCache]

ShelfTop(shelves) ==
    IF shelves = <<>> THEN 0 ELSE Last(shelves).y + Last(shelves).height

\* shelves that still have room for a w x h rectangle
FittingShelves(st, w, h) ==
    {i \in 1..Len(st.shelves) :
        st.shelves[i].height >= h /\ st.shelves[i].used + w <= st.size.w}

PlaceOnShelf_AtStart(shelf, w, h) == [x |-> 0, y |-> shelf.y, w |-> w, h |-> h]

\* where a rectangle goes on a shelf
PlaceOnShelf(shelf, w, h) == [x |-> shelf.used, y |-> shelf.y, w |-> w, h |-> h]

\* Allocate(size): the first shelf with room, else a new shelf, else none.
\* The shaped row being drawn keeps the texcoord it was given.
Allocate(st, w, h) ==
    LET fit == FittingShelves(st, w, h)
        top == ShelfTop(st.shelves)
    IN IF fit # {}
       THEN LET i == CHOOSE k \in fit : \A m \in fit : k <= m
            IN [ok |-> TRUE,
                st |-> [st EXCEPT !.shelves[i].used = @ + w,
                                  !.regions = @ \cup {PlaceOnShelf(st.shelves[i], w, h)},
                                  !.rows = @ \cup {PlaceOnShelf(st.shelves[i], w, h)}]]
       ELSE IF w <= st.size.w /\ top + h <= st.size.h
       THEN [ok |-> TRUE,
             st |-> [st EXCEPT !.shelves = Append(@, [y |-> top, height |-> h, used |-> w]),
                               !.regions = @ \cup {[x |-> 0, y |-> top, w |-> w, h |-> h]},
                               !.rows = @ \cup {[x |-> 0, y |-> top, w |-> w, h |-> h]}]]
       ELSE [ok |-> FALSE, st |-> st]

ClearedShelves_Leaked(shelves) == shelves

\* the packer state Reset leaves: no shelf is open
ClearedShelves(shelves) == <<>>

InvalidatedRows_Kept(cachedRows) == cachedRows

\* the shaped-row caches Reset leaves: every cached row is dropped
InvalidatedRows(cachedRows) == {}

\* Reset(): clear all entries, reset the packer, double the texture up to
\* the hardware maximum, invalidate the shaped-row caches
ResetAtlas(st) ==
    [size    |-> [w |-> Min(2 * st.size.w, MaxAtlasDim), h |-> Min(2 * st.size.h, MaxAtlasDim)],
     shelves |-> ClearedShelves(st.shelves),
     regions |-> {},
     reset   |-> TRUE,
     rows    |-> InvalidatedRows(st.rows)]

DrawGlyphAtlasAllocate_NoRetry(st, w, h) ==
    LET r == Allocate(st, w, h)
    IN IF r.ok THEN r.st ELSE st

\* the caller of Allocate: on none, reset and retry.  A clean atlas of the
\* maximum size that still has no room ends the retries.
RECURSIVE DrawGlyphAtlasAllocate(_, _, _)
DrawGlyphAtlasAllocate(st, w, h) ==
    LET r == Allocate(st, w, h)
    IN IF r.ok THEN r.st
       ELSE IF st.shelves = <<>> /\ st.size.w = MaxAtlasDim /\ st.size.h = MaxAtlasDim
       THEN st
       ELSE DrawGlyphAtlasAllocate(ResetAtlas(st), w, h)

SetAtlas(st) ==
    /\ _glyphAtlasSize' = st.size
    /\ _rectPacker' = st.shelves
    /\ atlasRegions' = st.regions
    /\ atlasResets' = st.reset
    /\ shapedRowCache' = st.rows

NoAtlasCall == [w |-> 0, h |-> 0, reset |-> FALSE, grew |-> FALSE, run |-> 0]

\* what the latest request was and how it went: its size, whether it had
\* to reset the atlas, whether the texture grew, and how many unit-size
\* requests in a row had been served without a reset (a request that resets
\* keeps the count of the run it ended)
AtlasCallRecord(before, after, w, h) ==
    LET didReset == ~Allocate(before, w, h).ok
    IN [w     |-> w,
        h     |-> h,
        reset |-> didReset,
        grew  |-> after.size # before.size,
        run   |-> IF didReset THEN atlasCall.run
                  ELSE IF w # 1 \/ h # 1 THEN 0
                  ELSE IF atlasCall.reset THEN 1
                  ELSE atlasCall.run + 1]

InitAtlasVars ==
    /\ _glyphAtlasSize = [w |-> InitialAtlasDim, h |-> InitialAtlasDim]
    /\ _rectPacker = <<>>
    /\ atlasRegions = {}
    /\ atlasResets = FALSE
    /\ shapedRowCache = {}
    /\ atlasCall = NoAtlasCall

DoDrawGlyphAtlasAllocate ==
    /\ \E w \in GlyphDims, h \in GlyphDims :
          LET after == DrawGlyphAtlasAllocate(AtlasState, w, h)
          IN /\ SetAtlas(after)
             /\ atlasCall' = AtlasCallRecord(AtlasState, after, w, h)
    /\ UNCHANGED <<cacheVars, batchVars, frameVars, extraVars>>

----------------------------------------------------------------------------
(* DirectStorageManager, the asynchronous byte loader, and the calls          *)
(* BackendD3D12 makes into it                                                 *)

\* the calls of Initialize that can fail, in the order they are made; "none"
\* stands for a run in which all succeed
InitFailures == {"none", "null device", "LoadLibraryW", "GetProcAddress",
                 "DStorageCreateFactory", "CreateQueue", "CreateEventW",
                 "SetEventNotification"}

\* bound of the loader model: file handles kept between two WaitForIdle
MaxPendingFiles == 3

\* the calls of EnqueueFileRead that can fail
EnqueueFailures == {"none", "OpenFile", "EnqueueRequest"}

NoStorageCall == [op |-> "none", ret |-> "none"]

StorageState == [available |-> _available, fileQueue |-> _fileQueue, status |-> _status,
                 pending |-> _pendingFiles, queue |-> storageQueue]

Shutdown_StaysAvailable(st) ==
    [available |-> st.available, fileQueue |-> FALSE, status |-> st.status, pending |-> 0,
     queue |-> [enqueued |-> 0, inflight |-> 0]]

\* Shutdown(): cancel and close the queue, drop every handle
Shutdown(st) ==
    [available |-> FALSE, fileQueue |-> FALSE, status |-> st.status, pending |-> 0,
     queue |-> [enqueued |-> 0, inflight |-> 0]]

\* the call of Initialize whose failure is passed to THROW_IF_FAILED
InitializeThrows(failure) == failure = "SetEventNotification"

\* Initialize(device): what it returns ("true", "false", or "thrown" when an
\* exception leaves it) and the state it leaves
Initialize(st, have, failure) ==
    LET s0 == Shutdown(st)
    IN IF failure = "null device"
       THEN [ret |-> "false", st |-> [s0 EXCEPT !.status = "Initialize called with null device"]]
       ELSE IF ~have
       THEN [ret |-> "false",
             st  |-> [s0 EXCEPT !.status = "DirectStorage headers unavailable at build time"]]
       ELSE IF failure = "LoadLibraryW"
       THEN [ret |-> "false", st |-> [s0 EXCEPT !.status = "DirectStorage runtime not found"]]
       ELSE IF failure = "GetProcAddress"
       THEN [ret |-> "false",
             st  |-> [s0 EXCEPT !.status = "DirectStorage factory export not available"]]
       ELSE IF failure = "DStorageCreateFactory"
       THEN [ret |-> "false", st |-> [s0 EXCEPT !.status = "DStorageCreateFactory failed"]]
       ELSE IF failure = "CreateQueue"
       THEN [ret |-> "false", st |-> [s0 EXCEPT !.status = "CreateQueue failed"]]
       ELSE IF failure = "CreateEventW"
       THEN [ret |-> "false",
             st  |-> [s0 EXCEPT !.fileQueue = TRUE,
                                !.status = "Failed to create DirectStorage queue event"]]
       ELSE IF failure = "SetEventNotification"
       THEN [ret |-> IF InitializeThrows(failure) THEN "thrown" ELSE "false",
             st  |-> [s0 EXCEPT !.fileQueue = TRUE]]
       ELSE [ret |-> "true",
             st  |-> [s0 EXCEPT !.fileQueue = TRUE, !.available = TRUE,
                                !.status = "DirectStorage queue ready"]]

\* EnqueueFileRead(path, destination, ...): one request for one row
EnqueueFileRead(st, have, failure) ==
    IF ~have \/ ~st.available \/ ~st.fileQueue
    THEN [ret |-> "false", st |-> st]
    ELSE IF failure = "OpenFile"
    THEN [ret |-> "false", st |-> [st EXCEPT !.status = "OpenFile failed"]]
    ELSE IF failure = "EnqueueRequest"
    THEN [ret |-> "false", st |-> [st EXCEPT !.status = "EnqueueRequest failed"]]
    ELSE [ret |-> "true",
          st  |-> [st EXCEPT !.pending = @ + 1, !.queue.enqueued = @ + 1]]

\* Submit(): everything enqueued starts
Submit(st, have) ==
    IF have /\ st.fileQueue
    THEN [st EXCEPT !.queue = [enqueued |-> 0, inflight |-> @.inflight + @.enqueued],
                    !.status = "DirectStorage queue submitted"]
    ELSE st

\* WaitForIdle() once the queue is idle: the file handles are dropped
WaitForIdle(st, have) ==
    IF ~have THEN st
    ELSE [st EXCEPT !.pending = 0,
                    !.status = IF st.fileQueue THEN "DirectStorage queue idle" ELSE @]

\* the row loop of _updateGlyphAtlasFromFile: rows are enqueued until one
\* fails (failRow = 0: none does)
RECURSIVE EnqueueRows(_, _, _, _, _, _)
EnqueueRows(st, have, row, height, failRow, failure) ==
    IF row > height THEN [ret |-> "true", st |-> st]
    ELSE LET r == EnqueueFileRead(st, have, IF row = failRow THEN failure ELSE "none")
         IN IF r.ret = "true"
            THEN EnqueueRows(r.st, have, row + 1, height, failRow, failure)
            ELSE r

\* bound of the atlas writes: width and height of the glyph atlas texture
GlyphAtlasExtent == 2

PIXEL_SHADER_RESOURCE == "PIXEL_SHADER_RESOURCE"
COPY_DEST == "COPY_DEST"

\* a u32 is kept as its two 16-bit halves
U16 == 65536

U32Of(n) == [hi |-> n \div U16, lo |-> n % U16]

\* 0xFFFFFFFF
U32Max == [hi |-> U16 - 1, lo |-> U16 - 1]

\* u32 + u32, which wraps at 2^32
AddU32(a, b) ==
    LET lo == a.lo + b.lo
        hi == a.hi + b.hi + (lo \div U16)
    IN [hi |-> hi % U16, lo |-> lo % U16]

\* u32 > atlasDesc.Width (UINT64) or atlasDesc.Height (UINT); the atlas is
\* narrower than 2^16
GreaterThanExtent(a, extent) == a.hi > 0 \/ a.lo > extent

IsZeroU32(a) == a.hi = 0 /\ a.lo = 0

\* x and y handed to an atlas write: inside the atlas, or 0xFFFFFFFF
UploadCoords == {U32Of(n) : n \in 0..(GlyphAtlasExtent - 1)} \cup {U32Max}

\* width and height handed to an atlas write
UploadExtents == {U32Of(n) : n \in 0..GlyphAtlasExtent}

Region(x, y, width, height) == [x |-> x, y |-> y, width |-> width, height |-> height]

NoRegion == Region(U32Of(0), U32Of(0), U32Of(0), U32Of(0))

\* _transitionResource(resource, stateBefore, stateAfter): the barrier recorded
TransitionResource(stateBefore, stateAfter) ==
    IF stateBefore = stateAfter THEN <<>>
    ELSE <<[cmd |-> "ResourceBarrier", before |-> stateBefore, after |-> stateAfter,
            region |-> NoRegion]>>

\* _commandList->CopyTextureRegion(&dstLocation, x, y, 0, &srcLocation, &srcBox)
CopyTextureRegion(x, y, width, height) ==
    <<[cmd |-> "CopyTextureRegion", before |-> "", after |-> "",
       region |-> Region(x, y, width, height)]>>

TransitionBack_Missing == <<>>

\* the last call of every atlas write
TransitionBack == TransitionResource(COPY_DEST, PIXEL_SHADER_RESOURCE)

\* what _updateGlyphAtlas, _updateGlyphAtlasFromFile and _clearGlyphAtlas
\* record once the upload buffer holds the bytes
AtlasWriteCommands(x, y, width, height) ==
    TransitionResource(PIXEL_SHADER_RESOURCE, COPY_DEST)
        \o CopyTextureRegion(x, y, width, height)
        \o TransitionBack

\* the resource state a list of commands leaves the atlas in
RECURSIVE StateAfterCommands(_, _, _)
StateAfterCommands(state, cmds, n) ==
    IF n > Len(cmds) THEN state
    ELSE StateAfterCommands(IF cmds[n].cmd = "ResourceBarrier" THEN cmds[n].after ELSE state,
                            cmds, n + 1)

\* the bounds test of _updateGlyphAtlas and _updateGlyphAtlasFromFile
OutOfAtlas(x, y, width, height) ==
    \/ GreaterThanExtent(AddU32(x, width), GlyphAtlasExtent)
    \/ GreaterThanExtent(AddU32(y, height), GlyphAtlasExtent)

\* _updateGlyphAtlas(data, x, y, width, height)
UpdateGlyphAtlas(atlas, data, x, y, width, height, mapFails) ==
    IF ~atlas \/ ~data \/ IsZeroU32(width) \/ IsZeroU32(height)
    THEN [ret |-> "early", cmds |-> <<>>]
    ELSE IF OutOfAtlas(x, y, width, height) THEN [ret |-> "early", cmds |-> <<>>]
    ELSE IF mapFails THEN [ret |-> "thrown", cmds |-> <<>>]
    ELSE [ret |-> "void", cmds |-> AtlasWriteCommands(x, y, width, height)]

\* _clearGlyphAtlas()
ClearGlyphAtlas(atlas, mapFails) ==
    IF ~atlas THEN [ret |-> "early", cmds |-> <<>>]
    ELSE IF mapFails THEN [ret |-> "thrown", cmds |-> <<>>]
    ELSE [ret |-> "void",
          cmds |-> AtlasWriteCommands(U32Of(0), U32Of(0), U32Of(GlyphAtlasExtent),
                                      U32Of(GlyphAtlasExtent))]

NoUploadCall == [op |-> "none", ret |-> "void", region |-> NoRegion]

\* the atlas write ends: its commands are on the list
SetUpload(op, r) ==
    /\ atlasCommands' = r.cmds
    /\ glyphAtlasState' = StateAfterCommands(glyphAtlasState, r.cmds, 1)
    /\ uploadCall' = [op |-> op, ret |-> r.ret, region |-> NoRegion]
    /\ UNCHANGED _glyphAtlas

\* _updateGlyphAtlasFromFile waits in WaitForIdle: nothing is recorded yet
SetUploadWaiting(op, region) ==
    /\ atlasCommands' = <<>>
    /\ uploadCall' = [op |-> op, ret |-> "waiting", region |-> region]
    /\ UNCHANGED <<_glyphAtlas, glyphAtlasState>>

\* no exception has left an atlas write
UploadCallable == uploadCall.ret # "thrown"

\* _createGlyphAtlas is not called by the constructor: no atlas yet
InitUploadVars ==
    /\ _glyphAtlas = FALSE
    /\ glyphAtlasState = "none"
    /\ atlasCommands = <<>>
    /\ uploadCall = NoUploadCall

\* _createGlyphAtlas(width, height)
DoCreateGlyphAtlas ==
    /\ UploadCallable
    /\ ~_glyphAtlas
    /\ _glyphAtlas' = TRUE
    /\ glyphAtlasState' = PIXEL_SHADER_RESOURCE
    /\ atlasCommands' = <<>>
    /\ uploadCall' = [op |-> "_createGlyphAtlas", ret |-> "void", region |-> NoRegion]
    /\ UNCHANGED <<cacheVars, batchVars, frameVars, atlasVars, storageVars, extraButUpload>>

DoUpdateGlyphAtlas ==
    /\ UploadCallable
    /\ \E data \in BOOLEAN, x \in UploadCoords, y \in UploadCoords,
          width \in UploadExtents, height \in UploadExtents, mapFails \in BOOLEAN :
          SetUpload("_updateGlyphAtlas",
                    UpdateGlyphAtlas(_glyphAtlas, data, x, y, width, height, mapFails))
    /\ UNCHANGED <<cacheVars, batchVars, frameVars, atlasVars, storageVars, extraButUpload>>

DoClearGlyphAtlas ==
    /\ UploadCallable
    /\ \E mapFails \in BOOLEAN :
          SetUpload("_clearGlyphAtlas", ClearGlyphAtlas(_glyphAtlas, mapFails))
    /\ UNCHANGED <<cacheVars, batchVars, frameVars, atlasVars, storageVars, extraButUpload>>

SetStorage(st, call) ==
    /\ _available' = st.available
    /\ _fileQueue' = st.fileQueue
    /\ _status' = st.status
    /\ _pendingFiles' = st.pending
    /\ storageQueue' = st.queue
    /\ storageCall' = call

\* the frame variables a call into the loader leaves alone
frameVarsButStorage ==
    <<pc, _currentFrameIndex, _frameResources, _fenceValue, _computeFenceValue,
      _copyFenceValue, _frameCount, releasing, gpuQueue, fenceCompleted, submitted,
      signalled, computeSignalled, frameAtlasWrites, presentResult>>

\* no call is in progress and no exception has left the loader
StorageCallable == storageCall.ret \notin {"waiting", "thrown"}

InitStorageVars ==
    /\ ATLAS_HAVE_DIRECTSTORAGE = TRUE
    /\ _available = FALSE
    /\ _fileQueue = FALSE
    /\ _status = ""
    /\ _pendingFiles = 0
    /\ storageCall = NoStorageCall

\* the constructor of BackendD3D12 (or a later re-initialisation) calls
\* Initialize(device)
DoInitialize ==
    /\ StorageCallable
    /\ \E failure \in InitFailures :
          LET r == Initialize(StorageState, ATLAS_HAVE_DIRECTSTORAGE, failure)
          IN SetStorage(r.st, [op |-> "Initialize", ret |-> r.ret])
    /\ UNCHANGED <<ATLAS_HAVE_DIRECTSTORAGE, frameVarsButStorage, cacheVars, batchVars,
                   atlasVars, extraButStorage>>

DoEnqueueFileRead ==
    /\ StorageCallable
    /\ storageQueue.enqueued + storageQueue.inflight < MaxStorageRequests
    /\ _pendingFiles < MaxPendingFiles
    /\ \E failure \in EnqueueFailures :
          LET r == EnqueueFileRead(StorageState, ATLAS_HAVE_DIRECTSTORAGE, failure)
          IN SetStorage(r.st, [op |-> "EnqueueFileRead", ret |-> r.ret])
    /\ UNCHANGED <<ATLAS_HAVE_DIRECTSTORAGE, frameVarsButStorage, cacheVars, batchVars,
                   atlasVars, extraButStorage>>

DoSubmit ==
    /\ StorageCallable
    /\ SetStorage(Submit(StorageState, ATLAS_HAVE_DIRECTSTORAGE),
                  [op |-> "Submit", ret |-> "void"])
    /\ UNCHANGED <<ATLAS_HAVE_DIRECTSTORAGE, frameVarsButStorage, cacheVars, batchVars,
                   atlasVars, extraButStorage>>

\* _updateGlyphAtlasFromFile(path, x, y, width, height): false when the
\* loader is not available or a row cannot be enqueued; else Submit, and the
\* thread waits in WaitForIdle
DoUpdateGlyphAtlasFromFile ==
    /\ StorageCallable
    /\ UploadCallable
    /\ \E height \in 1..MaxStorageRequests, failRow \in 0..MaxStorageRequests,
          failure \in EnqueueFailures \ {"none"},
          x \in UploadCoords, y \in UploadCoords, width \in UploadExtents :
          /\ failRow <= height
          /\ storageQueue.enqueued + storageQueue.inflight + height <= MaxStorageRequests
          /\ _pendingFiles + height <= MaxPendingFiles
          /\ IF \/ ~_available \/ ~_glyphAtlas \/ IsZeroU32(width)
                \/ OutOfAtlas(x, y, width, U32Of(height))
             THEN /\ SetStorage(StorageState,
                                [op |-> "_updateGlyphAtlasFromFile", ret |-> "false"])
                  /\ SetUpload("_updateGlyphAtlasFromFile", [ret |-> "false", cmds |-> <<>>])
             ELSE LET r == EnqueueRows(StorageState, ATLAS_HAVE_DIRECTSTORAGE, 1, height,
                                       failRow, failure)
                  IN IF r.ret = "true"
                     THEN /\ SetStorage(Submit(r.st, ATLAS_HAVE_DIRECTSTORAGE),
                                        [op |-> "_updateGlyphAtlasFromFile",
                                         ret |-> "waiting"])
                          /\ SetUploadWaiting("_updateGlyphAtlasFromFile",
                                              Region(x, y, width, U32Of(height)))
                     ELSE /\ SetStorage(r.st,
                                        [op |-> "_updateGlyphAtlasFromFile", ret |-> "false"])
                          /\ SetUpload("_updateGlyphAtlasFromFile",
                                       [ret |-> "false", cmds |-> <<>>])
    /\ UNCHANGED <<ATLAS_HAVE_DIRECTSTORAGE, frameVarsButStorage, cacheVars, batchVars,
                   atlasVars, extraButUpload>>

\* WaitForIdle() returns inside _updateGlyphAtlasFromFile; the copy into the
\* atlas is recorded and true is returned
DoUpdateGlyphAtlasFromFileReturn ==
    /\ storageCall = [op |-> "_updateGlyphAtlasFromFile", ret |-> "waiting"]
    /\ StorageIdle(storageQueue)
    /\ SetStorage(WaitForIdle(StorageState, ATLAS_HAVE_DIRECTSTORAGE),
                  [op |-> "_updateGlyphAtlasFromFile", ret |-> "true"])
    /\ LET r == uploadCall.region
       IN SetUpload("_updateGlyphAtlasFromFile",
                    [ret |-> "true",
                     cmds |-> AtlasWriteCommands(r.x, r.y, r.width, r.height)])
    /\ UNCHANGED <<ATLAS_HAVE_DIRECTSTORAGE, frameVarsButStorage, cacheVars, batchVars,
                   atlasVars, extraButUpload>>

\* WaitForIdle() called by itself, as the destructor and ReleaseResources do
DoWaitForIdle ==
    /\ StorageCallable
    /\ ~_fileQueue \/ StorageIdle(storageQueue)
    /\ SetStorage(WaitForIdle(StorageState, ATLAS_HAVE_DIRECTSTORAGE),
                  [op |-> "WaitForIdle", ret |-> "void"])
    /\ UNCHANGED <<ATLAS_HAVE_DIRECTSTORAGE, frameVarsButStorage, cacheVars, batchVars,
                   atlasVars, extraButStorage>>

\* Shutdown(), from the destructor or ReleaseResources
DoShutdown ==
    /\ StorageCallable
    /\ SetStorage(Shutdown(StorageState), [op |-> "Shutdown", ret |-> "void"])
    /\ UNCHANGED <<ATLAS_HAVE_DIRECTSTORAGE, frameVarsButStorage, cacheVars, batchVars,
                   atlasVars, extraButStorage>>

----------------------------------------------------------------------------
(* AtlasEngineD3D12: mapping the text of a row to the glyphs of its          *)
(* ShapedRowD3D12                                                            *)

\* bounds of the mapping model: rows of the viewport, code points on a line,
\* glyphs kept in one shaped row
NumRows == 2
MaxLineLen == 2
MaxRowGlyphs == 2

RowIndices == 0..(NumRows - 1)

\* code points painted: U+0041 (in the font), U+E000 (no font face maps
\* it), U+2588 (a builtin glyph), U+FFFD itself
LatinA == 65
PrivateUse == 57344
FullBlock == 9608
ReplacementCodePoint == 65533

CodePoints == {LatinA, PrivateUse, FullBlock}

\* BuiltinGlyphs::IsBuiltinGlyph(codepoint) with builtinGlyphs enabled
IsBuiltinGlyph(codepoint) == codepoint = FullBlock

\* IDWriteFontFallback::MapCharacters finds a font for the code point
HasFontFace(codepoint) == codepoint \in {LatinA, FullBlock}

\* IDWriteFontFace::GetGlyphIndices
GlyphIndexOf(codepoint) == (codepoint % 256) + 1

\* glyph index GetGlyphIndicesW gives for U+FFFD in the fallback font
ReplacementGlyphIndex == GlyphIndexOf(ReplacementCodePoint)

Lines == UNION {[1..n -> CodePoints] : n \in 1..MaxLineLen}

\* _api.bufferLineColumn: every code point painted takes one column
BufferLineColumn(text) == [i \in 1..(Len(text) + 1) |-> i - 1]

\* the inner do-while of _flushBufferLine: the end (exclusive, 0-based) of
\* the segment that starts at segmentEnd and holds code points of one kind
RECURSIVE SegmentEnd(_, _, _)
SegmentEnd(text, segmentEnd, custom) ==
    IF segmentEnd >= Len(text) THEN segmentEnd
    ELSE IF IsBuiltinGlyph(text[segmentEnd + 1]) # custom THEN segmentEnd
    ELSE SegmentEnd(text, segmentEnd + 1, custom)

\* the outer loop of _flushBufferLine: the non-empty segments, in order
RECURSIVE Segments(_, _, _)
Segments(text, segmentBeg, custom) ==
    IF segmentBeg >= Len(text) THEN <<>>
    ELSE LET segmentEnd == SegmentEnd(text, segmentBeg, custom)
             rest == Segments(text, segmentEnd, ~custom)
         IN IF segmentBeg # segmentEnd
            THEN <<[beg |-> segmentBeg, end |-> segmentEnd, custom |-> custom]>> \o rest
            ELSE rest

\* _mapCharacters(text + idx, offEnd - idx, ...): the length of the run
\* mapped to one font face, and whether there is a font face at all
RECURSIVE MappedLength(_, _, _)
MappedLength(text, idx, offEnd) ==
    IF idx + 1 >= offEnd THEN 1
    ELSE IF HasFontFace(text[idx + 2]) # HasFontFace(text[idx + 1]) THEN 1
    ELSE 1 + MappedLength(text, idx + 1, offEnd)

MapCharacters(text, idx, offEnd) ==
    [mappedLength |-> MappedLength(text, idx, offEnd),
     mappedFontFace |-> HasFontFace(text[idx + 1])]

\* _mapReplacementCharacter(from, to, row) after the look-up: one
\* replacement glyph for every column of [from, to), none without a font face
MapReplacementCharacter(row, text, from, to, rc) ==
    IF ~rc.fontFace THEN row
    ELSE row \o [i \in 1..(BufferLineColumn(text)[to + 1] - BufferLineColumn(text)[from + 1])
                    |-> rc.glyphIndex]

\* what _mapRegularText does to the row for a run without a font face
\* (the call of _mapReplacementCharacter there is commented out)
MapUnmappedRun(row, text, from, to, rc) == row

\* what _mapRegularText does to the row for a run with a font face (the
\* shaping code there is commented out)
MapMappedRun(row, text, from, to) == row

\* _mapRegularText(offBeg, offEnd)
RECURSIVE MapRegularText(_, _, _, _, _)
MapRegularText(row, text, idx, offEnd, rc) ==
    IF idx >= offEnd THEN row
    ELSE LET m == MapCharacters(text, idx, offEnd)
             mappedEnd == idx + m.mappedLength
         IN MapRegularText(IF ~m.mappedFontFace
                           THEN MapUnmappedRun(row, text, idx, mappedEnd, rc)
                           ELSE MapMappedRun(row, text, idx, mappedEnd),
                           text, mappedEnd, offEnd, rc)

\* what _flushBufferLine does to the row for one segment (both calls,
\* _mapBuiltinGlyphs and _mapRegularText, are commented out)
FlushSegment(row, text, segment, rc) == row

\* _flushBufferLine(): the row after the loop over the segments
RECURSIVE FlushSegments(_, _, _, _, _)
FlushSegments(row, text, segs, n, rc) ==
    IF n > Len(segs) THEN row
    ELSE FlushSegments(FlushSegment(row, text, segs[n], rc), text, segs, n + 1, rc)

FlushBufferLine(row, text, rc) == FlushSegments(row, text, Segments(text, 0, FALSE), 1, rc)

NoShapeCall == [op |-> "none", row |-> 0, text |-> <<>>, from |-> 0, to |-> 0]

InitShapeVars ==
    /\ bufferLine = <<>>
    /\ lastPaintBufferLineCoord = 0
    /\ rows = [y \in RowIndices |-> <<>>]
    /\ replacementCharacter = [lookedUp |-> FALSE, fontFace |-> FALSE, glyphIndex |-> 0]
    /\ shapeCall = NoShapeCall

\* the text of a row arrives in _api.bufferLine
PaintLine ==
    /\ bufferLine = <<>>
    /\ \E y \in RowIndices, text \in Lines :
          /\ bufferLine' = text
          /\ lastPaintBufferLineCoord' = y
          /\ shapeCall' = [NoShapeCall EXCEPT !.op = "paint", !.row = y, !.text = text]
    /\ UNCHANGED <<rows, replacementCharacter, cacheVars, batchVars, frameVars, atlasVars,
                   extraButShape>>

\* _flushBufferLine() on a non-empty buffer line
DoFlushBufferLine ==
    /\ bufferLine # <<>>
    /\ rows' = [rows EXCEPT ![lastPaintBufferLineCoord] =
                    FlushBufferLine(@, bufferLine, replacementCharacter)]
    /\ bufferLine' = <<>>
    /\ shapeCall' = [NoShapeCall EXCEPT !.op = "_flushBufferLine",
                                        !.row = lastPaintBufferLineCoord,
                                        !.text = bufferLine,
                                        !.to = Len(bufferLine)]
    /\ UNCHANGED <<lastPaintBufferLineCoord, replacementCharacter,
                   cacheVars, batchVars, frameVars, atlasVars, extraButShape>>

\* _mapRegularText(offBeg, offEnd) on a regular segment of the buffer line
DoMapRegularText ==
    /\ bufferLine # <<>>
    /\ \E n \in 1..MaxLineLen :
          LET segs == Segments(bufferLine, 0, FALSE)
          IN /\ n <= Len(segs)
             /\ ~segs[n].custom
             /\ rows' = [rows EXCEPT ![lastPaintBufferLineCoord] =
                             MapRegularText(@, bufferLine, segs[n].beg, segs[n].end,
                                            replacementCharacter)]
             /\ shapeCall' = [op |-> "_mapRegularText", row |-> lastPaintBufferLineCoord,
                              text |-> bufferLine, from |-> segs[n].beg, to |-> segs[n].end]
    /\ UNCHANGED <<bufferLine, lastPaintBufferLineCoord, replacementCharacter,
                   cacheVars, batchVars, frameVars, atlasVars, extraButShape>>

\* _mapReplacementCharacter(from, to, row): the first call looks U+FFFD up,
\* which finds a font face with the glyph or does not
DoMapReplacementCharacter ==
    /\ bufferLine # <<>>
    /\ Len(rows[lastPaintBufferLineCoord]) + Len(bufferLine) <= MaxRowGlyphs
    /\ \E from \in 0..(MaxLineLen - 1), to \in 1..MaxLineLen, found \in BOOLEAN :
          LET rc == IF replacementCharacter.lookedUp THEN replacementCharacter
                    ELSE [lookedUp |-> TRUE, fontFace |-> found,
                          glyphIndex |-> IF found THEN ReplacementGlyphIndex ELSE 0]
          IN /\ from < to
             /\ to <= Len(bufferLine)
             /\ replacementCharacter' = rc
             /\ rows' = [rows EXCEPT ![lastPaintBufferLineCoord] =
                             MapReplacementCharacter(@, bufferLine, from, to, rc)]
             /\ shapeCall' = [op |-> "_mapReplacementCharacter",
                              row |-> lastPaintBufferLineCoord,
                              text |-> bufferLine, from |-> from, to |-> to]
    /\ UNCHANGED <<bufferLine, lastPaintBufferLineCoord,
                   cacheVars, batchVars, frameVars, atlasVars, extraButShape>>

----------------------------------------------------------------------------
(* RequiresContinuousRedraw of the two backends                              *)

Backends == {"BackendD3D12", "BackendOpenGL"}

NoRedrawCall == [backend |-> "none", ret |-> FALSE]

D3D12RequiresContinuousRedraw_Always == TRUE

\* BackendD3D12::RequiresContinuousRedraw()
D3D12RequiresContinuousRedraw == FALSE

\* BackendOpenGL::RequiresContinuousRedraw()
OpenGLRequiresContinuousRedraw == _requiresContinuousRedraw

RequiresContinuousRedraw(backend) ==
    IF backend = "BackendD3D12" THEN D3D12RequiresContinuousRedraw
    ELSE OpenGLRequiresContinuousRedraw

\* a custom shader program exists and the backend has marked it as animated;
\* BackendD3D12 keeps no custom shader at all
TimeBasedEffectActive(backend) ==
    backend = "BackendOpenGL" /\ _customShaderProgram # 0 /\ _requiresContinuousRedraw

\* both members keep their default member initializers: no function of
\* BackendOpenGL assigns either
InitRedrawVars ==
    /\ _requiresContinuousRedraw = FALSE
    /\ _customShaderProgram = 0
    /\ redrawCall = NoRedrawCall

\* the engine asks a backend whether it has to keep redrawing
DoRequiresContinuousRedraw ==
    /\ \E backend \in Backends :
          redrawCall' = [backend |-> backend, ret |-> RequiresContinuousRedraw(backend)]
    /\ UNCHANGED <<_requiresContinuousRedraw, _customShaderProgram, cacheVars, batchVars,
                   frameVars, atlasVars, storageVars, shapeVars, uploadVars, engineVars>>

----------------------------------------------------------------------------
(* Specifications *)

----------------------------------------------------------------------------
(* D3D12Engine: one frame is StartPaint, the Paint* calls, EndPaint          *)

\* D3D12Engine::FrameCount, the buffers of its swap chain
EngineFrameCount == 2

\* bounds of the engine model: fence values handed out, work the queue holds
MaxEngineFenceValue == 3
MaxEngineQueue == 3

PRESENT == "PRESENT"
RENDER_TARGET == "RENDER_TARGET"

EngineBuffers == 0..(EngineFrameCount - 1)

\* the calls of StartPaint and EndPaint that end in RETURN_IF_FAILED, in the
\* order they are made; "none" stands for a run in which all succeed
StartPaintFailures == {"none", "CreateCommandList", "CreateSwapChainForHwnd", "GetBuffer"}
EndPaintFailures == {"none", "Close", "Present", "Signal", "SetEventOnCompletion"}

NoEngineCall == [op |-> "none", ret |-> "none", fence |-> 0, presentState |-> "none"]

EngineCall(op, ret) == [op |-> op, ret |-> ret, fence |-> 0, presentState |-> "none"]

\* StartPaint(): what it returns and the members it leaves
StartPaint(e, current, failure) ==
    IF failure = "CreateCommandList"
    THEN [ret |-> "E_FAIL", e |-> e]
    ELSE IF ~e._swapChain /\ failure = "CreateSwapChainForHwnd"
    THEN [ret |-> "E_FAIL", e |-> e]
    ELSE IF failure = "GetBuffer"
    THEN [ret |-> "E_FAIL", e |-> [e EXCEPT !._swapChain = TRUE]]
    ELSE [ret |-> "S_OK", e |-> [e EXCEPT !._swapChain = TRUE, !._frameIndex = current]]

DoStartPaint ==
    /\ paint = "idle"
    /\ engine._fenceValue < MaxEngineFenceValue
    /\ Len(engineQueue) < MaxEngineQueue
    /\ \E failure \in StartPaintFailures :
          LET r == StartPaint(engine, backBuffers.current, failure)
          IN /\ engine' = r.e
             /\ paint' = IF r.ret = "S_OK" THEN "painting" ELSE "idle"
             /\ engineCall' = EngineCall("StartPaint", r.ret)
    /\ UNCHANGED <<backBuffers, engineQueue, engineCompleted>>
    /\ UNCHANGED <<cacheVars, batchVars, frameVars, atlasVars, extraButEngine>>

\* ResourceBarrier(Transition(resource, before, after)) recorded on the
\* command list: the state the list leaves the resource in
EngineTransition(states, buffer, before, after) == [states EXCEPT ![buffer] = after]

\* PaintBackground(): barrier PRESENT -> RENDER_TARGET, then the clear
PaintBackground(states, frameIndex) ==
    EngineTransition(states, frameIndex, PRESENT, RENDER_TARGET)

DoPaintBackground ==
    /\ paint = "painting"
    /\ backBuffers' = [backBuffers EXCEPT !.state = PaintBackground(@, engine._frameIndex)]
    /\ engineCall' = EngineCall("PaintBackground", "S_OK")
    /\ UNCHANGED <<paint, engine, engineQueue, engineCompleted>>
    /\ UNCHANGED <<cacheVars, batchVars, frameVars, atlasVars, extraButEngine>>

EngineExecItem == [op |-> "exec", value |-> 0]

EngineSignalItem(value) == [op |-> "signal", value |-> value]

\* DXGI_SWAP_EFFECT_FLIP_DISCARD: Present moves on to the next buffer
NextEngineBuffer(i) == (i + 1) % EngineFrameCount

EngineFenceBehind_Never(completed, fence) == FALSE

\* the test of EndPaint: the fence has not reached the value just signalled,
\* the thread sets the event and waits for it
EngineFenceBehind(completed, fence) == completed < fence

\* EndPaint() up to its return or its WaitForSingleObject
DoEndPaint ==
    /\ paint = "painting"
    /\ \E failure \in EndPaintFailures :
          LET state == backBuffers.state[backBuffers.current]
              fence == engine._fenceValue
          IN IF failure = "Close"
             THEN /\ engineCall' = EngineCall("EndPaint", "E_FAIL")
                  /\ paint' = "idle"
                  /\ UNCHANGED <<engine, backBuffers, engineQueue>>
             ELSE IF failure = "Present"
             THEN /\ engineQueue' = Append(engineQueue, EngineExecItem)
                  /\ engineCall' = [EngineCall("EndPaint", "E_FAIL") EXCEPT
                                        !.presentState = state]
                  /\ paint' = "idle"
                  /\ UNCHANGED <<engine, backBuffers>>
             ELSE IF failure = "Signal"
             THEN /\ engineQueue' = Append(engineQueue, EngineExecItem)
                  /\ backBuffers' = [backBuffers EXCEPT !.current = NextEngineBuffer(@)]
                  /\ engineCall' = [EngineCall("EndPaint", "E_FAIL") EXCEPT
                                        !.presentState = state]
                  /\ paint' = "idle"
                  /\ UNCHANGED engine
             ELSE /\ engineQueue' = engineQueue \o <<EngineExecItem, EngineSignalItem(fence)>>
                  /\ backBuffers' = [backBuffers EXCEPT !.current = NextEngineBuffer(@)]
                  /\ engine' = [engine EXCEPT !._fenceValue = NextFenceValue(@)]
                  /\ IF ~EngineFenceBehind(engineCompleted, fence)
                     THEN /\ engineCall' = [op |-> "EndPaint", ret |-> "S_OK",
                                            fence |-> fence, presentState |-> state]
                          /\ paint' = "idle"
                     ELSE IF failure = "SetEventOnCompletion"
                     THEN /\ engineCall' = [op |-> "EndPaint", ret |-> "E_FAIL",
                                            fence |-> fence, presentState |-> state]
                          /\ paint' = "idle"
                     ELSE /\ engineCall' = [op |-> "EndPaint", ret |-> "waiting",
                                            fence |-> fence, presentState |-> state]
                          /\ paint' = "waiting"
    /\ UNCHANGED engineCompleted
    /\ UNCHANGED <<cacheVars, batchVars, frameVars, atlasVars, extraButEngine>>

\* WaitForSingleObject(_fenceEvent) returns: the fence reached the value
\* the event was set for; EndPaint returns S_OK
DoEndPaintReturn ==
    /\ paint = "waiting"
    /\ ~EngineFenceBehind(engineCompleted, engineCall.fence)
    /\ engineCall' = [engineCall EXCEPT !.ret = "S_OK"]
    /\ paint' = "idle"
    /\ UNCHANGED <<engine, backBuffers, engineQueue, engineCompleted>>
    /\ UNCHANGED <<cacheVars, batchVars, frameVars, atlasVars, extraButEngine>>

\* the GPU finishes the oldest piece of work of the engine's queue; a
\* Signal sets the fence to the value it carries
EngineGpuStep ==
    /\ engineQueue # <<>>
    /\ engineCompleted' = IF Head(engineQueue).op = "signal"
                          THEN Head(engineQueue).value ELSE engineCompleted
    /\ engineQueue' = Tail(engineQueue)
    /\ UNCHANGED <<paint, engine, backBuffers, engineCall>>
    /\ UNCHANGED <<cacheVars, batchVars, frameVars, atlasVars, extraButEngine>>

\* Initialize(): CreateFence(0), _fenceValue = 1; the swap chain is made by
\* the first StartPaint and its buffers start in the PRESENT state
InitEngineVars ==
    /\ paint = "idle"
    /\ engine = [_swapChain |-> FALSE, _frameIndex |-> 0, _fenceValue |-> 1]
    /\ backBuffers = [current |-> 0, state |-> [b \in EngineBuffers |-> PRESENT]]
    /\ engineQueue = <<>>
    /\ engineCompleted = 0
    /\ engineCall = NoEngineCall

Init == InitCacheVars /\ InitBatchVars /\ InitFrameVars /\ InitAtlasVars /\ InitStorageVars
           /\ InitShapeVars /\ InitRedrawVars /\ InitUploadVars /\ InitEngineVars

InitCache == Init

NextCache == DoAddGlyph \/ DoTryGetGlyph \/ DoPreloadGlyph \/ DoClear

SpecCache == InitCache /\ [][NextCache]_vars

InitBatch == Init

NextBatch ==
    \/ DoBatchBegin
    \/ DoBatchAddInstance
    \/ DoBatchEnd
    \/ DoBatchRender
    \/ DoRequiresContinuousRedraw

SpecBatch == InitBatch /\ [][NextBatch]_vars

InitFrame == Init

NextFrame ==
    \/ BeginFrame
    \/ PopulateCommandList
    \/ ExecuteCommandLists
    \/ Present
    \/ MoveToNextFrame
    \/ RenderStepThrows
    \/ WaitForGpuBegin
    \/ WaitForGpuStep
    \/ ReleaseResources
    \/ DispatchGridGeneration
    \/ DispatchGlyphRasterization
    \/ DispatchGlyphRasterizationReturn
    \/ UpdateGlyphAtlasFromFile
    \/ UpdateGlyphAtlasFromFileFails
    \/ UpdateGlyphAtlasFromFileReturn
    \/ StorageStep
    \/ GpuStep

SpecFrame == InitFrame /\ [][NextFrame]_vars

\* the GPU keeps executing: every queue that holds work finishes its oldest
\* piece eventually
GpuFairness == \A q \in Queues : WF_vars(GpuStepOn(q))

SpecFrameLive == InitFrame /\ [][NextFrame]_vars /\ GpuFairness

InitScript ==
    InitScriptVars /\ InitBatchVars /\ InitFrameVars /\ InitAtlasVars /\ InitStorageVars
           /\ InitShapeVars /\ InitRedrawVars /\ InitUploadVars /\ InitEngineVars

NextScript == DoScriptCall

SpecScript == InitScript /\ [][NextScript]_vars

\* the loader in a build with and in a build without the DirectStorage headers
InitStorage ==
    /\ InitCacheVars /\ InitBatchVars /\ InitFrameVars /\ InitAtlasVars
    /\ ATLAS_HAVE_DIRECTSTORAGE \in BOOLEAN
    /\ _available = FALSE
    /\ _fileQueue = FALSE
    /\ _status = ""
    /\ _pendingFiles = 0
    /\ storageCall = NoStorageCall
    /\ InitShapeVars
    /\ InitRedrawVars
    /\ InitEngineVars
    /\ InitUploadVars

NextStorage ==
    \/ DoInitialize
    \/ DoEnqueueFileRead
    \/ DoSubmit
    \/ DoUpdateGlyphAtlasFromFile
    \/ DoUpdateGlyphAtlasFromFileReturn
    \/ DoCreateGlyphAtlas
    \/ DoWaitForIdle
    \/ DoShutdown
    \/ StorageStep

SpecStorage == InitStorage /\ [][NextStorage]_vars

InitUpload == Init

NextUpload ==
    \/ DoCreateGlyphAtlas
    \/ DoUpdateGlyphAtlas
    \/ DoClearGlyphAtlas
    \/ DoInitialize
    \/ DoUpdateGlyphAtlasFromFile
    \/ DoUpdateGlyphAtlasFromFileReturn
    \/ StorageStep

SpecUpload == InitUpload /\ [][NextUpload]_vars

InitEngine == Init

NextEngine ==
    \/ DoStartPaint
    \/ DoPaintBackground
    \/ DoEndPaint
    \/ DoEndPaintReturn
    \/ EngineGpuStep

SpecEngine == InitEngine /\ [][NextEngine]_vars

InitShape == Init

NextShape ==
    \/ PaintLine
    \/ DoFlushBufferLine
    \/ DoMapRegularText
    \/ DoMapReplacementCharacter

SpecShape == InitShape /\ [][NextShape]_vars

InitAtlas == Init

NextAtlas == DoDrawGlyphAtlasAllocate

SpecAtlas == InitAtlas /\ [][NextAtlas]_vars

----------------------------------------------------------------------------
(* Properties of the byte-budget cache *)

LiveBytes == SumOver(m_cache, DOMAIN m_cache)

\* every key of the map is on the LRU list (keeps the eviction loop finite)
CachedKeysAreListed ==
    \A k \in DOMAIN m_cache : \E i \in 1..Len(m_lruList) : m_lruList[i] = k

\* C1: after any sequence of AddGlyph / TryGetGlyph calls the dataSize of the
\* live entries sums to at most MAX_ATLAS_SIZE.
C1_BudgetRespected == LiveBytes <= MAX_ATLAS_SIZE

\* C6: an AddGlyph whose entry.dataSize exceeds the whole budget is refused:
\* the map, the recency list and the usage counter are what they were
\* before the call.
C6_OversizeInsertRefused ==
    [][(lastCall'.op = "add" /\ lastCall'.size > MAX_ATLAS_SIZE)
          => /\ m_cache' = m_cache
             /\ m_lruList' = m_lruList
             /\ m_currentMemoryUsage' = m_currentMemoryUsage]_vars

\* C7: every entry AddGlyph evicts is, at the moment it is evicted, the live
\* entry with the oldest touch (its insertion or its latest TryGetGlyph hit).
\* touchOrder lists the live entries newest touch first, so the i-th eviction
\* of one call has to take the i-th entry from its back.
C7_EvictsLeastRecentlyTouched ==
    [][\A i \in 1..Len(lastEvicted') :
          /\ i <= Len(touchOrder)
          /\ lastEvicted'[i] = touchOrder[Len(touchOrder) - i + 1]]_vars

\* C32: the usage counter equals the sum of dataSize over the entries that
\* are in the cache, also after AddGlyph of a key that is already cached.
C32_UsageEqualsLiveBytes == m_currentMemoryUsage = LiveBytes

\* how often a key is on the recency list
Occurrences(list, k) == Cardinality({i \in 1..Len(list) : list[i] = k})

\* C33: the recency list holds every cached key exactly once and no key
\* that is not cached.
C33_RecencyListMatchesCache ==
    /\ \A k \in DOMAIN m_cache : Occurrences(m_lruList, k) = 1
    /\ \A i \in 1..Len(m_lruList) : m_lruList[i] \in DOMAIN m_cache

\* the while loop of AddGlyph, run for at most `fuel` evictions: TRUE when
\* its condition turns false within them
RECURSIVE LoopEndsWithin(_, _, _)
LoopEndsWithin(st, size, fuel) ==
    IF ~MustEvict(st, size) THEN TRUE
    ELSE IF fuel = 0 THEN FALSE
    ELSE LoopEndsWithin(EvictOldestGlyph(st), size, fuel - 1)

\* C38: in every reachable cache state the eviction loop of AddGlyph ends,
\* for every entry size: each eviction pops one key of the recency list, and
\* the loop condition is false at the latest when the list has run empty
\* (with an empty list EvictOldestGlyph changes nothing, so a loop still
\* running then would run forever).
C38_EvictionLoopTerminates ==
    \A size \in EntrySizes : LoopEndsWithin(CacheState, size, Len(m_lruList))

\* witness for C38: an AddGlyph whose loop ran more than once has returned
C38_Witness ==
    /\ lastCall.op = "add"
    /\ Len(lastEvicted) >= 2
    /\ lastCall.key \in DOMAIN m_cache

\* C18: on a fresh cache whose budget holds exactly three entries of the
\* size used, after AddGlyph of A, B, C, D in that order, TryGetGlyph(A) and
\* AddGlyph(E), the entry AddGlyph(E) evicted is B and no other; C, D and E
\* are the live entries.
C18_LruScenarioEvictsB ==
    (script.kind = "lru" /\ scriptPos = Len(script.calls)) =>
        /\ lastEvicted = <<script.calls[2].key>>
        /\ DOMAIN m_cache = {script.calls[3].key, script.calls[4].key, script.calls[6].key}

\* witness for C18: the six calls have been made, the last one evicted
C18_Witness ==
    /\ script.kind = "lru"
    /\ scriptPos = 6
    /\ lastCall.op = "add"
    /\ Len(lastEvicted) = 1

\* C19: while BulkGlyphCount distinct glyphs of BulkGlyphMiB MiB each are
\* added one at a time with no TryGetGlyph in between, the live entries sum
\* to at most MAX_ATLAS_SIZE, as many are live as the budget holds, and the
\* live keys are the most recently added ones: a suffix of the insertion
\* order, so the evicted ones are exactly the oldest.
C19_BulkInsertKeepsNewest ==
    script.kind = "bulk" =>
        LET n    == Cardinality(DOMAIN m_cache)
            fits == MAX_ATLAS_SIZE \div (BulkGlyphMiB * MiB)
        IN /\ LiveBytes <= MAX_ATLAS_SIZE
           /\ n = IF scriptPos < fits THEN scriptPos ELSE fits
           /\ DOMAIN m_cache =
                 {script.calls[i].key : i \in (scriptPos - n + 1)..scriptPos}

\* witness for C19: every glyph has been added and some had to go
C19_Witness ==
    /\ script.kind = "bulk"
    /\ scriptPos = BulkGlyphCount
    /\ Cardinality(DOMAIN m_cache) < BulkGlyphCount
    /\ lastEvicted # <<>>

----------------------------------------------------------------------------
(* Properties of the batcher *)

RECURSIVE SumCounts(_, _)
SumCounts(bs, n) == IF n = 0 THEN 0 ELSE bs[n].instanceCount + SumCounts(bs, n - 1)

\* C3: the batches' instanceCounts sum to the number of stored instances and
\* the ranges [instanceOffset, instanceOffset + instanceCount) are non-empty,
\* start where the previous one ends, begin at 0 and end at len(instances):
\* pairwise disjoint and covering, in batch order.
C3_BatchesPartitionInstances ==
    /\ SumCounts(_batches, Len(_batches)) = Len(_instances)
    /\ \A i \in 1..Len(_batches) :
          /\ _batches[i].instanceCount >= 1
          /\ _batches[i].instanceOffset = SumCounts(_batches, i - 1)

\* witness for C3: a stream that extended one batch and opened another
C3_Witness ==
    /\ Len(_batches) >= 2
    /\ \E i \in 1..Len(_batches) : _batches[i].instanceCount >= 2

\* C34: for every batch and every instance index in its range
\* [instanceOffset, instanceOffset + instanceCount), the instance's 16-bit
\* shadingType equals the batch's shadingType.
C34_InstancesCarryBatchShading ==
    \A i \in 1..Len(_batches) :
        \A k \in (_batches[i].instanceOffset + 1)..
                  (_batches[i].instanceOffset + _batches[i].instanceCount) :
            k <= Len(_instances) => _instances[k] = _batches[i].shadingType

\* C35: every value signalled on the compute fence, by a grid-generation
\* dispatch, a glyph-rasterization dispatch or _waitForGpu, is strictly
\* greater than every value signalled on it before.
C35_ComputeFenceValuesIncrease ==
    \A i, j \in 1..Len(computeSignalled) :
        i < j => computeSignalled[i] < computeSignalled[j]

\* C37: when _updateGlyphAtlasFromFile returns false, after the enqueue of
\* some row failed or before any row was tried, no read request of that
\* call is left in the queue: the queue holds what it held before the call,
\* so a later Submit starts no read of the failed call.
C37_FailedUploadLeavesNoRequest ==
    [][storageCall' = [op |-> "_updateGlyphAtlasFromFile", ret |-> "false"]
          => storageQueue'.enqueued = storageQueue.enqueued]_vars

\* C40: IsAvailable() is true only from an Initialize in which every call
\* succeeded until the next call of Shutdown or Initialize, and an
\* EnqueueFileRead made while it is false returns false and enqueues nothing.
C40_AvailableOnlyAfterInitialize ==
    [][/\ _available' =>
            \/ storageCall' = [op |-> "Initialize", ret |-> "true"]
            \/ _available /\ storageCall'.op \notin {"Initialize", "Shutdown"}
       /\ (~_available /\ storageCall'.op = "EnqueueFileRead") =>
            /\ storageCall'.ret = "false"
            /\ storageQueue'.enqueued = storageQueue.enqueued
            /\ _pendingFiles' = _pendingFiles]_vars

\* witness for C40: Initialize succeeded, Shutdown followed, and an
\* EnqueueFileRead made after it was refused
C40_Witness ==
    /\ ~_available
    /\ _status = "DirectStorage queue ready"
    /\ storageCall = [op |-> "EnqueueFileRead", ret |-> "false"]

\* C36 (D3D12Engine): the current back buffer is in the PRESENT state
\* whenever EndPaint calls Present and when StartPaint has started a frame,
\* so the transition to RENDER_TARGET recorded in a frame was undone before
\* the frame's command list was executed.
C36_BackBufferInPresentState ==
    /\ engineCall.op = "EndPaint" => engineCall.presentState \in {"none", PRESENT}
    /\ (engineCall.op = "StartPaint" /\ engineCall.ret = "S_OK") =>
           backBuffers.state[engine._frameIndex] = PRESENT

\* work of a frame the GPU has not finished
EngineFramesInFlight == {i \in 1..Len(engineQueue) : engineQueue[i].op = "exec"}

\* C39: when EndPaint returns S_OK the fence has reached the value that
\* EndPaint signalled and the queue holds no unfinished frame, so none is in
\* flight when the next StartPaint begins.
C39_EndPaintWaitsForGpu ==
    (engineCall.op = "EndPaint" /\ engineCall.ret = "S_OK") =>
        /\ engineCompleted >= engineCall.fence
        /\ engineCall.fence >= 1
        /\ EngineFramesInFlight = {}

\* witness for C39: an EndPaint that was not the first to signal the fence
\* returned S_OK after the fence reached its value
C39_Witness ==
    /\ engineCall.op = "EndPaint"
    /\ engineCall.ret = "S_OK"
    /\ engineCall.fence >= 2
    /\ engineCompleted = engineCall.fence

\* number of maximal runs of equal values in a sequence
RECURSIVE NumRuns(_, _)
NumRuns(s, n) ==
    IF n = 0 THEN 0
    ELSE IF n = 1 THEN 1
    ELSE NumRuns(s, n - 1) + (IF s[n] # s[n - 1] THEN 1 ELSE 0)

\* C4: the number of batches equals the number of maximal runs of
\* consecutive instances with equal (16-bit) shadingType.
C4_BatchesEqualRuns == Len(_batches) = NumRuns(_instances, Len(_instances))

----------------------------------------------------------------------------
(* Properties of the frame lifecycle *)

InsideFrame == pc \in {"recording", "populated", "executed", "presented"}

\* C2: once _beginFrame has reset the allocator of the current slot, the
\* frame fence has reached the value the previous _moveToNextFrame of that
\* slot stored in the slot.
C2_AllocatorReuseAfterFence ==
    InsideFrame => fenceCompleted["frame"] >= _frameResources[_currentFrameIndex]

\* witness for C2: a frame is being recorded in a slot that was used before
C2_Witness ==
    /\ pc = "recording"
    /\ _frameResources[_currentFrameIndex] > 0
    /\ _frameCount >= FrameCount

\* C8 as stated: at every point of the render loop at most FrameCount - 1
\* submitted frames have a fence value that has not completed.
C8_InFlightBelowFrameCount == Cardinality(InFlight) <= FrameCount - 1

\* C8 as amended: at most FrameCount submitted frames are incomplete at any
\* point, and at most FrameCount - 1 from the return of _beginFrame until
\* the frame being recorded is submitted.
C8_InFlightAtMostFrameCount ==
    /\ Cardinality(InFlight) <= FrameCount
    /\ pc \in {"recording", "populated"} => Cardinality(InFlight) <= FrameCount - 1

\* witness for C8: FrameCount frames are submitted and incomplete
C8_Witness == Cardinality(InFlight) = FrameCount /\ pc = "idle"

C10_NoWriteWhileFrameReads ==
    [][(pc = "recording" /\ pc' = "populated") => InFlight = {}]_vars

\* the kinds of work still waiting in a queue
PendingOps(q) == {gpuQueue[q][i].op : i \in 1..Len(gpuQueue[q])}

\* command lists, as opposed to Signals
WorkOps == {"exec", "grid", "glyph"}

C12_ComputeWorkOnComputeQueue ==
    \A q \in Queues \ {"compute"} : \A i \in 1..Len(gpuQueue[q]) :
        /\ gpuQueue[q][i].op \notin {"grid", "glyph"}
        /\ gpuQueue[q][i].op = "signal" => gpuQueue[q][i].fence # "compute"

\* C13: each signalAndWait of _waitForGpu puts the Signal of its fence, with
\* the fence's current value, on its own queue, and when _waitForGpu returns
\* no queue holds a command list any more.
C13_WaitForGpuDrainsAllQueues ==
    [][/\ \A n \in 1..Len(WaitStages) :
             (pc # WaitStages[n].pc /\ pc' = WaitStages[n].pc) =>
                 Last(gpuQueue'[WaitStages[n].queue])
                     = SignalItem(WaitStages[n].fence, FenceValueOf(WaitStages[n].fence))
       /\ (pc = "wait_copy" /\ pc' \in {"idle", "released"}) =>
             \A q \in Queues : PendingOps(q) \cap WorkOps = {}]_vars

\* witness for C13: ReleaseResources has returned from _waitForGpu after
\* frames and a compute dispatch had been submitted
C13_Witness ==
    /\ pc = "released"
    /\ _frameCount >= 2
    /\ _computeFenceValue > _copyFenceValue

\* C20: when Present reports a removed or reset device, Render ends there
\* with the error: _moveToNextFrame does not run (no Signal, no new fence
\* value, no new frame index), and the render thread does nothing further
\* with this backend afterwards.
C20_DeviceLossPropagates ==
    [][/\ (pc = "executed" /\ pc' # pc /\ presentResult' \in DeviceLostResults) =>
             /\ pc' = "lost"
             /\ UNCHANGED <<gpuQueue, _fenceValue, _currentFrameIndex, _frameResources,
                            _frameCount, signalled, submitted>>
       /\ pc = "lost" =>
             /\ pc' = "lost"
             /\ UNCHANGED <<_fenceValue, _currentFrameIndex, _frameResources,
                            _frameCount, signalled, submitted>>]_vars

\* witness for C20: Present reported the loss after earlier frames went well
C20_Witness ==
    /\ pc = "lost"
    /\ presentResult \in DeviceLostResults
    /\ _frameCount >= 1

\* positions of the render thread between _beginFrame and the hand-over of
\* the command list, atlas updates made on the way included
RecordingSteps == {"recording", "wait_rasterize", "wait_storage", "populated"}

\* the state of buffering slot i: Recording while its command list is being
\* recorded, Submitted from _executeCommandLists until the frame fence has
\* reached the value _moveToNextFrame signals for it, Idle otherwise
SlotState(i) ==
    IF i = _currentFrameIndex /\ pc \in RecordingSteps THEN "Recording"
    ELSE IF \E k \in InFlight : submitted[k].slot = i THEN "Submitted"
    ELSE "Idle"

SlotMoves == {<<"Idle", "Recording">>, <<"Recording", "Submitted">>, <<"Submitted", "Idle">>}

\* the order of the five steps of Render, with the waits of the atlas
\* updates as parts of the recording
RenderOrder ==
    {<<"idle", "recording">>, <<"recording", "populated">>, <<"populated", "executed">>,
     <<"executed", "presented">>, <<"presented", "idle">>,
     <<"recording", "wait_rasterize">>, <<"wait_rasterize", "recording">>,
     <<"recording", "wait_storage">>, <<"wait_storage", "recording">>}

FatalEnds == {"lost", "failed"}

\* C21: a buffering slot only moves Idle -> Recording -> Submitted -> Idle,
\* and a Render that has begun goes through _beginFrame,
\* _populateCommandList, _executeCommandLists, _present and _moveToNextFrame
\* in that order: it never returns to idle before _moveToNextFrame has
\* signalled the fence and stored the slot's value, unless it ends in an
\* error thrown to the caller, after which no frame is begun.
C21_SlotStateMachine ==
    [][/\ \A i \in Slots :
             (SlotState(i)' # SlotState(i) /\ pc' \notin FatalEnds) =>
                 <<SlotState(i), SlotState(i)'>> \in SlotMoves
       /\ (pc \in RecordingSteps \cup {"executed", "presented"} /\ pc' # pc) =>
             (<<pc, pc'>> \in RenderOrder \/ pc' \in FatalEnds)
       /\ (pc = "presented" /\ pc' = "idle") =>
             /\ Last(gpuQueue'["graphics"]) = SignalItem("frame", _fenceValue)
             /\ _frameResources'[_currentFrameIndex] = _fenceValue
             /\ _frameCount' = _frameCount + 1
       /\ pc \in FatalEnds => pc' = pc]_vars

\* witness for C21: every slot has been through the cycle; one is being
\* recorded again, one is still submitted and one is idle
C21_Witness ==
    /\ _frameCount > FrameCount
    /\ SlotState(_currentFrameIndex) = "Recording"
    /\ \E i, j \in Slots : SlotState(i) = "Submitted" /\ SlotState(j) = "Idle"

\* the render thread sits in a WaitForSingleObject / WaitForIdle issued by an
\* atlas update while a frame is being recorded
BlockedInAtlasUpdate ==
    \/ pc = "wait_rasterize" /\ ~DispatchComplete(fenceCompleted["compute"], _computeFenceValue)
    \/ pc = "wait_storage" /\ ~StorageIdle(storageQueue)

PendingFrameSignals ==
    {gpuQueue["graphics"][k].value :
        k \in {j \in 1..Len(gpuQueue["graphics"]) :
                  /\ gpuQueue["graphics"][j].op = "signal"
                  /\ gpuQueue["graphics"][j].fence = "frame"}}

\* the fence has reached the slot's value, or a Signal that takes it there
\* is in the graphics queue
WatermarkSignalled(i) ==
    \/ fenceCompleted["frame"] >= _frameResources[i]
    \/ \E v \in PendingFrameSignals : v >= _frameResources[i]

\* the fence wait of _beginFrame for the current slot is over
CurrentSlotReady ==
    BeginFrameReady(fenceCompleted["frame"], _frameResources[_currentFrameIndex])

\* C23: the value stored in a slot has been passed to Signal on the graphics
\* queue before, so it is either reached or on its way; and as long as the
\* GPU keeps executing what its queues hold, a _beginFrame that has to wait
\* for its slot gets to go on.
C23_BeginFrameWaitEnds ==
    /\ [](\A i \in Slots : WatermarkSignalled(i))
    /\ (~CurrentSlotReady ~> CurrentSlotReady)

\* witness for C23: _beginFrame would have to wait; the Signal it waits for
\* is still behind a command list in the graphics queue
C23_Witness ==
    /\ pc = "idle"
    /\ ~CurrentSlotReady
    /\ _frameCount >= FrameCount
    /\ Head(gpuQueue["graphics"]).op = "exec"

----------------------------------------------------------------------------
(* Properties of the asynchronous byte loader *)

\* C24: no call into the loader ends in an exception: when initialising it,
\* enqueueing a read or updating the atlas from a file does not work, the
\* call returns false.
C24_LoaderFailureNeverFatal == storageCall.ret # "thrown"

----------------------------------------------------------------------------
(* Properties of the rect-pack atlas *)

Overlap(a, b) ==
    /\ a.x < b.x + b.w
    /\ b.x < a.x + a.w
    /\ a.y < b.y + b.h
    /\ b.y < a.y + a.h

\* C5: for Allocate calls whose sizes fit the maximum atlas dimensions, the
\* regions handed out (and still valid) never overlap, and each lies within
\* the current texture: texcoord + size <= texture size.
C5_RegionsDisjointAndInBounds ==
    /\ \A r \in atlasRegions :
          /\ r.x >= 0 /\ r.y >= 0
          /\ r.x + r.w <= _glyphAtlasSize.w
          /\ r.y + r.h <= _glyphAtlasSize.h
    /\ \A a, b \in atlasRegions : a # b => ~Overlap(a, b)

\* witness for C5: several regions on more than one shelf, after a reset
C5_Witness ==
    /\ Cardinality(atlasRegions) >= 3
    /\ Len(_rectPacker) >= 2
    /\ \E i \in 1..Len(_rectPacker) : _rectPacker[i].used < _glyphAtlasSize.w
    /\ atlasResets

\* C15: every request ends with its glyph in the atlas.  When Allocate has
\* room, nothing is reset and the new region joins the old ones without
\* overlapping any.  When Allocate returns none, the caller resets: the old
\* entries are gone, the packer holds the new glyph alone at the origin, and
\* the texture is at least as large as before and at most the hardware
\* maximum.  (Five unit-size requests served in a row and a sixth that finds
\* no room is one such case.)
C15_ResetAndRetrySucceeds ==
    [][LET w == atlasCall'.w
           h == atlasCall'.h
           r == Allocate(AtlasState, w, h)
           fresh == atlasRegions' \ atlasRegions
       IN /\ \E g \in atlasRegions' : g.w = w /\ g.h = h
          /\ r.ok =>
                /\ ~atlasCall'.reset
                /\ atlasRegions \subseteq atlasRegions'
                /\ Cardinality(fresh) = 1
                /\ \A g \in fresh : g.w = w /\ g.h = h
                                     /\ \A old \in atlasRegions : ~Overlap(g, old)
          /\ ~r.ok =>
                /\ atlasCall'.reset
                /\ atlasRegions' = {[x |-> 0, y |-> 0, w |-> w, h |-> h]}
                /\ Len(_rectPacker') = 1
                /\ _glyphAtlasSize'.w >= _glyphAtlasSize.w
                /\ _glyphAtlasSize'.h >= _glyphAtlasSize.h
                /\ _glyphAtlasSize'.w <= MaxAtlasDim
                /\ _glyphAtlasSize'.h <= MaxAtlasDim]_vars

\* witness for C15: five unit-size glyphs were served in a row, the sixth
\* found no room, reset the atlas and was served
C15_Witness ==
    /\ atlasCall.reset
    /\ atlasCall.w = 1 /\ atlasCall.h = 1
    /\ atlasCall.run = 5
    /\ atlasRegions = {[x |-> 0, y |-> 0, w |-> 1, h |-> 1]}

C17_ResetGivesCleanPacker ==
    \A w, h \in GlyphDims :
        (w <= _glyphAtlasSize.w /\ h <= _glyphAtlasSize.h) =>
            LET clean == ResetAtlas(AtlasState)
                again == Allocate(clean, w, h)
            IN /\ clean.shelves = <<>>
               /\ clean.regions = {}
               /\ again.ok
               /\ again.st.regions = {[x |-> 0, y |-> 0, w |-> w, h |-> h]}

\* witness for C17: a full atlas of the maximum size was reset without
\* growing, and a size allocated before the reset was allocated again
C17_Witness ==
    /\ atlasCall.reset
    /\ ~atlasCall.grew
    /\ atlasCall.w = 1 /\ atlasCall.h = 1
    /\ atlasCall.run >= 1

----------------------------------------------------------------------------
(* Properties of the CPU-upload writes to the glyph atlas                    *)

\* the state the atlas is in when command n of the latest write executes,
\* given that the write started from PIXEL_SHADER_RESOURCE
StateBeforeCommand(n) ==
    StateAfterCommands(PIXEL_SHADER_RESOURCE, SubSeq(atlasCommands, 1, n - 1), 1)

\* the commands are a copy between a transition to COPY_DEST and one back,
\* each barrier naming the state the atlas is in
BracketedCopy ==
    /\ Len(atlasCommands) = 3
    /\ atlasCommands[1].cmd = "ResourceBarrier"
    /\ atlasCommands[1].before = PIXEL_SHADER_RESOURCE
    /\ atlasCommands[1].after = COPY_DEST
    /\ atlasCommands[2].cmd = "CopyTextureRegion"
    /\ StateBeforeCommand(2) = COPY_DEST
    /\ atlasCommands[3].cmd = "ResourceBarrier"
    /\ atlasCommands[3].before = StateBeforeCommand(3)
    /\ atlasCommands[3].after = PIXEL_SHADER_RESOURCE

WritingOps == {"_updateGlyphAtlas", "_updateGlyphAtlasFromFile", "_clearGlyphAtlas"}

\* C30: an atlas write that goes through records transition to COPY_DEST,
\* copy, transition back; one that returns early, fails or throws records
\* nothing; and between writes the atlas, once created, is in the
\* PIXEL_SHADER_RESOURCE state.
C30_AtlasWritesBracketed ==
    /\ _glyphAtlas => glyphAtlasState = PIXEL_SHADER_RESOURCE
    /\ (uploadCall.op \in WritingOps /\ uploadCall.ret \in {"void", "true"})
           => BracketedCopy
    /\ (uploadCall.op \in WritingOps /\ uploadCall.ret \notin {"void", "true"})
           => atlasCommands = <<>>

\* witness for C30: an update from a file has gone through on the created
\* atlas and left it readable by the pixel shader
C30_Witness ==
    /\ _glyphAtlas
    /\ uploadCall.op = "_updateGlyphAtlasFromFile"
    /\ uploadCall.ret = "true"
    /\ Len(atlasCommands) = 3
    /\ glyphAtlasState = PIXEL_SHADER_RESOURCE

\* x + width <= atlas width and y + height <= atlas height, as integers
InsideAtlas(r) ==
    /\ r.x.hi = 0 /\ r.width.hi = 0 /\ r.x.lo + r.width.lo <= GlyphAtlasExtent
    /\ r.y.hi = 0 /\ r.height.hi = 0 /\ r.y.lo + r.height.lo <= GlyphAtlasExtent

\* C31: a copy into the atlas is recorded only for a target rectangle that
\* lies inside the atlas, the sums taken as mathematical integers.
C31_UpdateInsideAtlas ==
    \A i \in DOMAIN atlasCommands :
        atlasCommands[i].cmd = "CopyTextureRegion" => InsideAtlas(atlasCommands[i].region)

----------------------------------------------------------------------------
(* Properties of the draw loop                                               *)

\* the draw calls that draw the instance at index k of the instance buffer
DrawsOf(draws, k) ==
    {i \in DOMAIN draws :
        draws[i].startInstance <= k /\ k < draws[i].startInstance + draws[i].instanceCount}

\* C29: _batchRender records exactly one DrawIndexedInstanced per batch, in
\* batch order, with the batch's instanceCount and instanceOffset and the
\* pipeline state of its shadingType; every instance accepted in the frame
\* is in the instance buffer and is drawn by exactly one of the calls, and
\* no call draws past the accepted instances.
C29_OneDrawPerBatch ==
    [][(batchPhase = "ended" /\ batchPhase' = "idle")
       => /\ Len(drawCalls') = Len(_batches)
          /\ \A i \in DOMAIN _batches :
                /\ drawCalls'[i].pso = PsoFor(_batches[i].shadingType)
                /\ drawCalls'[i].instanceCount = _batches[i].instanceCount
                /\ drawCalls'[i].startInstance = _batches[i].instanceOffset
          /\ \A k \in 0..(Len(_instances) - 1) :
                /\ Cardinality(DrawsOf(drawCalls', k)) = 1
                /\ instanceUpload[k + 1] = _instances[k + 1]
          /\ \A k \in Len(_instances)..MaxInstances : DrawsOf(drawCalls', k) = {}]_vars

\* witness for C29: a frame of three instances was drawn with two calls, the
\* second one starting past the first batch
C29_Witness ==
    /\ batchPhase = "idle"
    /\ Len(drawCalls) = 2
    /\ drawCalls[1].instanceCount = 2
    /\ drawCalls[2].startInstance = 2
    /\ drawCalls[1].pso # drawCalls[2].pso

----------------------------------------------------------------------------
(* Properties of RequiresContinuousRedraw                                    *)

\* C28: RequiresContinuousRedraw answers true only if a time-based custom
\* effect is active on that backend; with no such effect it answers false.
C28_RedrawOnlyForTimeBasedEffect ==
    redrawCall.backend \in Backends
        => (redrawCall.ret => TimeBasedEffectActive(redrawCall.backend))

\* witness for C28: both backends have been asked with instances batched and
\* no effect active; this is BackendD3D12's answer
C28_Witness ==
    /\ redrawCall.backend = "BackendD3D12"
    /\ ~TimeBasedEffectActive("BackendD3D12")
    /\ ~redrawCall.ret
    /\ _instanceCount > 0

----------------------------------------------------------------------------
(* Properties of the preload                                                 *)

\* C27: preloading a code point the font has no glyph for creates no cache
\* entry: the cache holds the same keys after the call as before it.
C27_MissingGlyphNotCached ==
    [][(lastCall'.op = "preload" /\ GetGlyphIndices(lastCall'.codepoint) = 0)
       => DOMAIN m_cache' = DOMAIN m_cache]_vars

----------------------------------------------------------------------------
(* Properties of the text mapping                                            *)

\* the glyphs of a text shaped in full: a builtin glyph is its code unit, a
\* code point of the font its glyph index, any other the replacement glyph
ShapedGlyphs(text) ==
    [i \in 1..Len(text) |->
        IF IsBuiltinGlyph(text[i]) THEN text[i]
        ELSE IF HasFontFace(text[i]) THEN GlyphIndexOf(text[i])
        ELSE ReplacementGlyphIndex]

\* C25: once the text of a row has been flushed, the row's shaped glyphs are
\* those of exactly that text: the shaped row is consistent with the row's
\* content.
C25_ShapedRowConsistent ==
    shapeCall.op = "_flushBufferLine"
        => rows[shapeCall.row] = ShapedGlyphs(shapeCall.text)

\* the code points of text[from + 1 .. to] that no font face maps
UnmappedIn(text, from, to) ==
    {i \in (from + 1)..to : ~HasFontFace(text[i]) /\ ~IsBuiltinGlyph(text[i])}

\* C26: a mapping of regular text that meets code points no font face maps
\* adds a replacement-character glyph to the row for each of them.
C26_ReplacementSubstituted ==
    [][(shapeCall'.op = "_mapRegularText"
          /\ UnmappedIn(shapeCall'.text, shapeCall'.from, shapeCall'.to) # {})
       => /\ Len(rows'[shapeCall'.row]) >= Len(rows[shapeCall'.row])
                 + Cardinality(UnmappedIn(shapeCall'.text, shapeCall'.from, shapeCall'.to))
          /\ \E i \in DOMAIN rows'[shapeCall'.row] :
                 rows'[shapeCall'.row][i] = ReplacementGlyphIndex]_vars

====
